---------------------------- MODULE Spec2Model ----------------------------
(***************************************************************************)
(* Cricket Bingo (src/app.py): the game-session engine.                    *)
(*                                                                         *)
(*   Spec     the browser game client (the script of GAME_BODY): the       *)
(*            object G, its handlers showP, timeUp, clickCell, doSkip,     *)
(*            doWildcard, quitGame, end and the callbacks of their         *)
(*            fetch() calls, against the Flask handlers                    *)
(*            api_validate_move and api_wildcard_hint.  The server keeps   *)
(*            the session in Flask's signed session cookie: a request      *)
(*            carries the cookie the browser holds when it is sent, the    *)
(*            response carries the new one.                                *)
(*   SpecApi  requests sent to play, api_validate_move and                 *)
(*            api_wildcard_hint directly, with any player_id and cell_idx. *)
(*   SpecMM   the matchmaking handlers on_queue and on_leave_q over the    *)
(*            tables matchmaking_queue and active_games.                   *)
(*   SpecSteps  on_queue statement by statement, one greenlet per event.   *)
(*   SpecRoom   a friends room: api_create_room, room, on_start and        *)
(*            api_end_game over active_games, season_ratings and matches.  *)
(*   SpecRated  rated matches: on_queue makes the room, api_end_game       *)
(*            collects the results and settles the match.                  *)
(*   SpecGames  rooms that are played more than once, by any mode.         *)
(*   SpecEnd    api_end_game statement by statement, one greenlet per      *)
(*            request; SpecEndFail adds requests that stop half-way.       *)
(*   SpecNoData  games started while ipl26.json is missing.                *)
(*   SpecRows   the rows of season_ratings under every kind of             *)
(*            end-of-game submission.                                      *)
(*   SpecPage   the matchmaking page: its join, its 30-second timeout and  *)
(*            its cancel button.                                           *)
(*   SpecEval, SpecScore, SpecGrid, SpecQueue  calls of                    *)
(*            player_matches_cell, calcScore, build_grid and               *)
(*            create_game_state for every choice of arguments; SpecDup     *)
(*            follows the values of the cells build_grid appends.          *)
(*                                                                         *)
(* Server handlers are atomic steps: the server runs gevent greenlets      *)
(* (async_mode="gevent") and sqlite3 calls do not yield.                   *)
(*                                                                         *)
(* A Python/JS string that the code takes apart (a cell value, which       *)
(* player_matches_cell splits on "+") is a sequence of one-character       *)
(* strings; identifiers that are only compared are TLA+ strings.           *)
(***************************************************************************)
EXTENDS Integers, Sequences, FiniteSets, TLC

(* ------------------------------------------------------------------ *)
(* Bounds of the model                                                 *)
(* ------------------------------------------------------------------ *)
\* number of grid cells of the modelled session (grid_size * grid_size)
NumCells == 2
\* callbacks outstanding at once: fetch('/api/validate_move') calls in flight
\* plus setTimeout(showP, ...) callbacks scheduled
MaxPending == 2
\* the users that are logged in: users.id is 1..NumUsers
NumUsers == 3
\* the room codes gen_room_code is seen to draw, out of its 10^6
NumCodes == 1
\* the matches that are settled before a friends room takes no further result
MaxMatches == 1
\* the matches that are settled before the server takes no further result,
\* where rooms are started again
MaxReplays == 2
\* a user whose season_ratings row counts this many games ends no further
\* solo, friends or daily game
MaxGames == 1
\* correct and wrong answers counted when a score is computed
MaxCount == 4
\* values of a grid that build_grid did not add to seen and that are followed
MaxLoose == 1

(* ------------------------------------------------------------------ *)
(* Program constants                                                   *)
(* ------------------------------------------------------------------ *)
InitSkips == 3
\* ABS(rating-?)<=300 in the candidate query of on_queue
MatchWindow == 300
\* the rating of a user with no season_ratings row
DefaultRating == 1200
\* k of elo_update
EloK == 32
\* the elapsed time api_end_game takes for a seat that has no result
DefaultElapsed == 9999
\* calcScore: the points for a grid with every cell filled
CompletionBonus == 200

\* Python None / JS null
None == "None"

(* ------------------------------------------------------------------ *)
(* Strings that are taken apart: sequences of one-character strings    *)
(* ------------------------------------------------------------------ *)
SP == " "
PLUS == "+"

\* f"{a} + {b}"
JoinPlus(a, b) == a \o <<SP, PLUS, SP>> \o b

\* str.strip(): leading and trailing whitespace removed
RECURSIVE LStrip(_)
LStrip(s) ==
    IF s # << >> /\ Head(s) = SP THEN LStrip(Tail(s)) ELSE s

RECURSIVE RStrip(_)
RStrip(s) ==
    IF s # << >> /\ s[Len(s)] = SP THEN RStrip(SubSeq(s, 1, Len(s) - 1)) ELSE s

Strip(s) == RStrip(LStrip(s))

\* str.split("+"): the pieces between the "+" characters, empty ones kept
RECURSIVE SplitPlus(_)
SplitPlus(s) ==
    IF \E i \in 1..Len(s) : s[i] = PLUS
    THEN LET i == CHOOSE k \in 1..Len(s) :
                     s[k] = PLUS /\ \A j \in 1..(k - 1) : s[j] # PLUS
         IN  <<SubSeq(s, 1, i - 1)>> \o SplitPlus(SubSeq(s, i + 1, Len(s)))
    ELSE <<s>>

\* x in list
InList(x, l) == \E i \in 1..Len(l) : l[i] = x

(* ------------------------------------------------------------------ *)
(* Player pools (overall.json, ipl26.json after load_json)             *)
(* ------------------------------------------------------------------ *)
MI  == <<"M", "I">>
CSK == <<"C", "S", "K">>
IND == <<"I", "N">>
AUS == <<"A", "U">>
CUP == <<"W", "C">>

\* load_json gives every record an id and a name
OVERALL_DATA ==
    << [id |-> "p1", name |-> "Rohit", nation |-> IND, iplTeams |-> <<MI>>,
        team |-> << >>, trophies |-> <<CUP>>],
       [id |-> "p2", name |-> "Warner", nation |-> AUS, iplTeams |-> <<CSK, MI>>,
        team |-> << >>, trophies |-> << >>],
       [id |-> "player_2", name |-> "Player 3", nation |-> AUS, iplTeams |-> <<CSK>>,
        team |-> << >>, trophies |-> <<CUP>>] >>

IPL26_DATA ==
    << [id |-> "q1", name |-> "Gill", nation |-> IND, iplTeams |-> << >>,
        team |-> CSK, trophies |-> << >>],
       [id |-> "q2", name |-> "Head", nation |-> AUS, iplTeams |-> << >>,
        team |-> MI, trophies |-> << >>] >>

\* OVERALL_DATA and IPL26_DATA as load_json left them when the process started
VARIABLE pools

\* both files were read
PoolsLoaded == [overall |-> OVERALL_DATA, ipl26 |-> IPL26_DATA]

\* overall.json lists records without iplTeams
PoolsNoTeams ==
    [overall |-> << [id |-> "player_0", name |-> "Player 1", nation |-> IND,
                     iplTeams |-> << >>, team |-> << >>, trophies |-> << >>],
                    [id |-> "player_1", name |-> "Player 2", nation |-> AUS,
                     iplTeams |-> << >>, team |-> << >>, trophies |-> << >>] >>,
     ipl26 |-> IPL26_DATA]

\* ipl26.json is missing or cannot be parsed: load_json returns []
PoolsNoIpl26 == [overall |-> OVERALL_DATA, ipl26 |-> << >>]

\* overall.json lists five records
PoolsBig == [overall |-> OVERALL_DATA \o IPL26_DATA, ipl26 |-> IPL26_DATA]

get_pool(ds) == IF ds = "overall" THEN pools.overall ELSE pools.ipl26

(* ------------------------------------------------------------------ *)
(* MatchEvaluator                                                      *)
(* ------------------------------------------------------------------ *)
\* seeded fault: the trophies of the record are used for every data source
player_matches_cell_TrophiesAnySource(player, cell, ds) ==
    LET ct       == cell.type
        cv       == cell.value
        teams    == IF ds = "overall" THEN player.iplTeams ELSE <<player.team>>
        nation   == player.nation
        trophies == player.trophies
    IN  CASE ct = "team"   -> InList(cv, teams)
          [] ct = "nation" -> cv = nation
          [] ct = "trophy" -> InList(cv, trophies)
          [] ct = "combo"  ->
                LET parts == SplitPlus(cv)
                IN  \A k \in 1..Len(parts) :
                        LET p == Strip(parts[k])
                        IN  InList(p, teams) \/ p = nation \/ InList(p, trophies)
          [] OTHER -> FALSE

\* seeded fault: any(...) in place of all(...)
player_matches_cell_AnyPart(player, cell, ds) ==
    LET ct       == cell.type
        cv       == cell.value
        teams    == IF ds = "overall" THEN player.iplTeams ELSE <<player.team>>
        nation   == player.nation
        trophies == IF ds = "overall" THEN player.trophies ELSE << >>
    IN  CASE ct = "team"   -> InList(cv, teams)
          [] ct = "nation" -> cv = nation
          [] ct = "trophy" -> InList(cv, trophies)
          [] ct = "combo"  ->
                LET parts == SplitPlus(cv)
                IN  \E k \in 1..Len(parts) :
                        LET p == Strip(parts[k])
                        IN  InList(p, teams) \/ p = nation \/ InList(p, trophies)
          [] OTHER -> FALSE

player_matches_cell(player, cell, ds) ==
    LET ct       == cell.type
        cv       == cell.value
        teams    == IF ds = "overall" THEN player.iplTeams ELSE <<player.team>>
        nation   == player.nation
        trophies == IF ds = "overall" THEN player.trophies ELSE << >>
    IN  CASE ct = "team"   -> InList(cv, teams)
          [] ct = "nation" -> cv = nation
          [] ct = "trophy" -> InList(cv, trophies)
          [] ct = "combo"  ->
                LET parts == SplitPlus(cv)
                IN  \A k \in 1..Len(parts) :
                        LET p == Strip(parts[k])
                        IN  InList(p, teams) \/ p = nation \/ InList(p, trophies)
          [] OTHER -> FALSE


(* ------------------------------------------------------------------ *)
(* Python list indexing, player lookup                                 *)
(* ------------------------------------------------------------------ *)
\* An optional JSON integer is << >> (missing / null) or <<i>>.
NoIdx == << >>

\* l[i] of a Python list of length n, as a 1-based TLA+ index: negative
\* indices count from the end, anything else raises IndexError (0 here).
PyIndex(n, i) ==
    IF 0 <= i /\ i < n THEN i + 1
    ELSE IF -n <= i /\ i < 0 THEN n + i + 1
    ELSE 0

\* int(pid.split("_", 1)[1]) for the ids "player_<k>", -1 for any other id
\* (one that does not start with "player_" or whose tail is no number)
SynthIndex(pid) ==
    CASE pid = "player_0" -> 0
      [] pid = "player_1" -> 1
      [] pid = "player_2" -> 2
      [] pid = "player_7" -> 7
      [] OTHER -> -1

\* 'player_' + k
SynthId(k) ==
    CASE k = 0 -> "player_0"
      [] k = 1 -> "player_1"
      [] k = 2 -> "player_2"
      [] OTHER -> "player_7"

\* next((p for p in pool if str(p.get("id")) == str(pid)), None), then the
\* positional fallback for "player_<k>"; 0 when no player is found
FindPlayer(pool, pid) ==
    LET hits == {i \in 1..Len(pool) : pool[i].id = pid}
        k    == SynthIndex(pid)
    IN  IF hits # {} THEN CHOOSE i \in hits : \A j \in hits : i <= j
        ELSE IF 0 <= k /\ k < Len(pool) THEN k + 1
        ELSE 0

(* ------------------------------------------------------------------ *)
(* Flask handlers on the session cookie                                *)
(*   sess = [has |-> "game_state" in session, grid_state |-> list]     *)
(* ------------------------------------------------------------------ *)
NoSession(g) == [has |-> FALSE, grid_state |-> [i \in 1..Len(g) |-> None]]

FreshSession(g) == [has |-> TRUE, grid_state |-> [i \in 1..Len(g) |-> None]]

\* the response of /api/validate_move and the session it leaves:
\*   cell: the 1-based position of the cell that was evaluated (0: none)
\*   modified: the session was written (the response sets the cookie)
Reply(correct, reason, status, cell, modified, sess) ==
    [correct |-> correct, reason |-> reason, status |-> status,
     cell |-> cell, modified |-> modified, sess |-> sess]

api_validate_move(sess, g, pid, cidx, src) ==
    IF ~sess.has THEN Reply(FALSE, "no_session", 200, 0, FALSE, sess)
    ELSE IF cidx = NoIdx \/ cidx[1] >= Len(g)
    THEN Reply(FALSE, "bad_index", 200, 0, FALSE, sess)
    ELSE LET c == PyIndex(Len(g), cidx[1])
             pool == get_pool(src)
             k == FindPlayer(pool, pid)
         IN  IF c = 0 THEN Reply(FALSE, "IndexError", 500, 0, FALSE, sess)
             ELSE IF sess.grid_state[c] # None
             THEN Reply(FALSE, "already_filled", 200, 0, FALSE, sess)
             ELSE IF k = 0
             THEN Reply(FALSE, "player_not_found", 200, 0, FALSE, sess)
             ELSE IF player_matches_cell(pool[k], g[c], src)
             THEN Reply(TRUE, "ok", 200, c, TRUE,
                        [sess EXCEPT !.grid_state[c] = pid])
             ELSE Reply(FALSE, "ok", 200, c, FALSE, sess)

\* seeded fault: filled cells are not left out
api_wildcard_hint_NoFillTest(sess, g, pid, src) ==
    LET pool == get_pool(src)
        k == FindPlayer(pool, pid)
    IN  IF ~sess.has \/ k = 0 THEN {}
        ELSE {i \in 0..(Len(g) - 1) : player_matches_cell(pool[k], g[i + 1], src)}

\* matching_cells of /api/wildcard_hint, as a set of 0-based cell indices
api_wildcard_hint(sess, g, pid, src) ==
    LET pool == get_pool(src)
        k == FindPlayer(pool, pid)
    IN  IF ~sess.has \/ k = 0 THEN {}
        ELSE {i \in 0..(Len(g) - 1) :
                 sess.grid_state[i + 1] = None
                 /\ player_matches_cell(pool[k], g[i + 1], src)}

(* ------------------------------------------------------------------ *)
(* State                                                               *)
(* ------------------------------------------------------------------ *)
VARIABLES
    \* the game state rendered into the page by play(): G.ds, the grid, G.players
    ds, grid, players,
    \* the object G of the game client
    idx, gstate, correct, wrong, skips, wcUsed, ended, clickable,
    tint,       \* the interval of startTimer is running
    showQ,      \* setTimeout(showP, ...) callbacks not yet run
    shown,      \* the index of the candidate showP displayed last (-1: none)
    hl,         \* the cells carrying the class 'hint'
    reason,     \* the reason end() posted to /api/end_game
    endPosts,   \* how many times end() posted /api/end_game
    \* the network and the browser's cookie jar
    moves,      \* fetch('/api/validate_move') in flight: [cell, cand, pid, sess]
    hints,      \* fetch('/api/wildcard_hint') in flight: [cand, pid, sess]
    cookie,     \* the session cookie the browser holds
    \* a caller of the HTTP API with a session cookie of its own
    apiSess,    \* the cookie that caller holds
    apiRet,     \* the request it sent last and the response it got
    page,       \* by user: the page the browser of the user shows
    \* the database
    queue,      \* the rows of matchmaking_queue
    rooms,      \* the rows of active_games, but for the column game_state
    game_state, \* the column game_state of active_games, by room code
    season_ratings, \* the rows of season_ratings of the current season, by user
    matches,    \* the rows of matches, in the order of their ids
    \* the greenlets that run on_queue
    pc,         \* by user: the statement of on_queue the greenlet is at
    found,      \* by user: the rows its candidate query returned
    loc,        \* by user: the local variables of its greenlet of api_end_game
    running,    \* the user whose greenlet is running (0: none)
    \* calls of pure functions: the arguments and, once made, the value returned
    ev,         \* a call of player_matches_cell
    sc,         \* a call of calcScore
    bg          \* a call of build_grid: its arguments and local variables

fnVars == <<ev, sc, bg>>
gameVars == <<pools, ds, grid, players, fnVars>>
clientVars == <<idx, gstate, correct, wrong, skips, wcUsed, ended, clickable,
                tint, showQ, shown, hl, reason, endPosts>>
netVars == <<moves, hints, cookie>>
sessionVars == <<clientVars, netVars>>
apiVars == <<apiSess, apiRet, page>>
mmVars == <<queue, rooms>>
dbVars == <<game_state, season_ratings, matches>>
greenVars == <<pc, found, loc, running>>
serverVars == <<apiVars, mmVars, dbVars, greenVars>>

Cells == 0..(NumCells - 1)

\* the callbacks outstanding; a handler that would add one beyond MaxPending
\* is not taken
Pending == Cardinality(moves) + showQ

(* ------------------------------------------------------------------ *)
(* create_game_state: the grid and the candidate queue of a session    *)
(* ------------------------------------------------------------------ *)
Palette ==
    << [type |-> "team", value |-> MI],
       [type |-> "nation", value |-> AUS],
       [type |-> "combo", value |-> JoinPlus(MI, IND)],
       [type |-> "team", value |-> CSK] >>

\* a grid build_grid can return for the pools above
Grids ==
    { [i \in 1..NumCells |-> Palette[((i - 1) % Len(Palette)) + 1]] }

\* pool[::-1]
Reversed(pool) == [i \in 1..Len(pool) |-> pool[Len(pool) + 1 - i]]

\* random.shuffle(pool) leaves any order of the pool; the orders explored are
\* the pool's own and its reverse
Shuffles(pool) == {pool, Reversed(pool)}

Min2(a, b) == IF a <= b THEN a ELSE b

\* every order random.shuffle(pool) can leave
AllShuffles(pool) ==
    {[i \in 1..Len(pool) |-> pool[f[i]]] : f \in Permutations(1..Len(pool))}

\* seeded fault: the whole shuffled pool is taken
Selected_Whole(pool, n) == pool

\* selected = pool[:min(len(pool), n * 3)]
Selected(pool, n) == SubSeq(pool, 1, Min2(Len(pool), n * 3))

(* ------------------------------------------------------------------ *)
(* The game client                                                     *)
(* ------------------------------------------------------------------ *)
\* G.gstate.every(x => x !== null)
AllFilled(gs) == \A i \in 1..Len(gs) : gs[i] # None

\* p.name || p.player_name || 'Player'
DisplayName(p) == IF p.name # "" THEN p.name ELSE "Player"

\* seeded fault: the positional id is sent whatever id the record has
ClientPid_Positional(p, k) == SynthId(k)

\* p.id || p.player_id || ('player_' + G.idx)
ClientPid(p, k) == IF p.id # "" THEN p.id ELSE SynthId(k)

GameInit ==
    /\ ds \in {"overall"}
    /\ grid \in Grids
    /\ players \in {Selected(q, NumCells) : q \in Shuffles(get_pool(ds))}

\* the constant G, the session play() stored, DOMContentLoaded about to call showP
ClientInit ==
    /\ idx = 0
    /\ gstate = [i \in 1..NumCells |-> None]
    /\ correct = 0 /\ wrong = 0 /\ skips = InitSkips /\ wcUsed = FALSE
    /\ ended = FALSE /\ clickable = FALSE
    /\ tint = FALSE
    /\ showQ = 1
    /\ shown = -1
    /\ hl = {}
    /\ reason = None
    /\ endPosts = 0
    /\ moves = {} /\ hints = {}
    /\ cookie = FreshSession(grid)

\* what a caller of the API that has sent nothing holds
NoCall ==
    [op |-> "none", pid |-> "", cidx |-> NoIdx, status |-> 0, correct |-> FALSE,
     reason |-> "", cell |-> 0, cells |-> {}]

ApiIdle ==
    /\ apiSess = NoSession(grid)
    /\ apiRet = NoCall

\* the tables init_db creates are empty
DbInit ==
    /\ queue = {}
    /\ rooms = {}

\* end(reason): what it leaves in ended, reason, endPosts. The response of
\* /api/end_game changes the page only; the session it pops is never sent again,
\* because every handler that sends a request returns early once G.ended is set.
end(r) ==
    IF ended
    THEN UNCHANGED <<ended, reason, endPosts>>
    ELSE /\ ended' = TRUE
         /\ reason' = r
         /\ endPosts' = endPosts + 1

\* clearInterval(G.tint) inside end(): only when end() does not return early
TintAfterEnd(t) == IF ended THEN t ELSE FALSE

showP ==
    /\ showQ > 0
    /\ showQ' = showQ - 1
    /\ IF idx >= Len(players)
       THEN /\ end("no_more_players")
            /\ tint' = TintAfterEnd(tint)
            /\ UNCHANGED <<shown, clickable>>
       ELSE /\ shown' = idx
            /\ tint' = TRUE
            /\ clickable' = TRUE
            /\ UNCHANGED <<ended, reason, endPosts>>
    /\ UNCHANGED <<idx, gstate, correct, wrong, skips, wcUsed, hl,
                   netVars, gameVars, serverVars>>

\* seeded fault: a timeout that also takes a skip
timeUp_TakesSkip ==
    /\ tint
    /\ Pending < MaxPending
    /\ tint' = FALSE
    /\ wrong' = wrong + 1
    /\ idx' = idx + 1
    /\ skips' = skips - 1
    /\ showQ' = showQ + 1
    /\ UNCHANGED <<gstate, correct, wcUsed, ended, clickable, shown, hl,
                   reason, endPosts, netVars, gameVars, serverVars>>

\* seeded fault: a timeout that moves the cursor and counts nothing
timeUp_NotCounted ==
    /\ tint
    /\ Pending < MaxPending
    /\ tint' = FALSE
    /\ idx' = idx + 1
    /\ showQ' = showQ + 1
    /\ UNCHANGED <<gstate, correct, wrong, skips, wcUsed, ended, clickable, shown,
                   hl, reason, endPosts, netVars, gameVars, serverVars>>

\* the interval of startTimer counts G.tleft down to 0
timeUp ==
    /\ tint
    /\ Pending < MaxPending
    /\ tint' = FALSE
    /\ wrong' = wrong + 1
    /\ idx' = idx + 1
    /\ showQ' = showQ + 1
    /\ UNCHANGED <<gstate, correct, skips, wcUsed, ended, clickable, shown, hl,
                   reason, endPosts, netVars, gameVars, serverVars>>

\* seeded fault: the filled-cell test is missing
ClickRejected_NoFilledTest(i) == ~clickable \/ ended \/ idx >= Len(players)

\* the early return of clickCell
ClickRejected(i) ==
    ~clickable \/ ended \/ gstate[i + 1] # None \/ idx >= Len(players)

clickCell(i) ==
    /\ IF ClickRejected(i)
       THEN UNCHANGED <<clickable, tint, moves>>
       ELSE /\ Pending < MaxPending
            /\ clickable' = FALSE
            /\ tint' = FALSE
            /\ moves' = moves \cup
                   {[cell |-> i, cand |-> idx,
                     pid |-> ClientPid(players[idx + 1], idx), sess |-> cookie]}
    /\ UNCHANGED <<idx, gstate, correct, wrong, skips, wcUsed, ended, showQ, shown,
                   hl, reason, endPosts, hints, cookie, gameVars, serverVars>>

\* the response of /api/validate_move arrives: the browser stores the cookie
\* the response sets, then the .then(res => ...) callback of clickCell runs
MoveReply(m) ==
    LET r == api_validate_move(m.sess, grid, m.pid, <<m.cell>>, ds)
        p == players[m.cand + 1]
        g2 == IF r.correct THEN [gstate EXCEPT ![m.cell + 1] = DisplayName(p)]
              ELSE gstate
    IN  /\ m \in moves
        /\ r.status = 200
        /\ moves' = moves \ {m}
        /\ cookie' = IF r.modified THEN r.sess ELSE cookie
        /\ gstate' = g2
        /\ correct' = IF r.correct THEN correct + 1 ELSE correct
        /\ wrong' = IF r.correct THEN wrong ELSE wrong + 1
        /\ idx' = idx + 1
        /\ IF AllFilled(g2)
           THEN /\ end("grid_complete")
                /\ tint' = TintAfterEnd(tint)
                /\ UNCHANGED showQ
           ELSE /\ showQ' = showQ + 1
                /\ UNCHANGED <<ended, reason, endPosts, tint>>
        /\ UNCHANGED <<skips, wcUsed, clickable, shown, hl, hints, gameVars, serverVars>>

\* the fetch of clickCell rejects (no response, or one that is not JSON):
\* the .catch callback runs
MoveFail(m) ==
    /\ m \in moves
    /\ moves' = moves \ {m}
    /\ clickable' = TRUE
    /\ tint' = TRUE
    /\ UNCHANGED <<idx, gstate, correct, wrong, skips, wcUsed, ended, showQ,
                   shown, hl, reason, endPosts, hints, cookie, gameVars, serverVars>>

\* seeded fault: the skip count is tested off by one
SkipRejected_OffByOne == skips < 0 \/ ended

\* the early return of doSkip
SkipRejected == skips <= 0 \/ ended

doSkip ==
    /\ IF SkipRejected
       THEN UNCHANGED <<skips, wrong, idx, tint, showQ>>
       ELSE /\ Pending < MaxPending
            /\ skips' = skips - 1
            /\ wrong' = wrong + 1
            /\ idx' = idx + 1
            /\ tint' = FALSE
            /\ showQ' = showQ + 1
    /\ UNCHANGED <<gstate, correct, wcUsed, ended, clickable, shown, hl, reason,
                   endPosts, netVars, gameVars, serverVars>>

\* seeded fault: G.wcUsed is not tested
WildcardRejected_NoUsedTest == ended \/ idx >= Len(players)

\* the early return of doWildcard
WildcardRejected == wcUsed \/ ended \/ idx >= Len(players)

doWildcard ==
    /\ IF WildcardRejected
       THEN UNCHANGED <<wcUsed, hints>>
       ELSE /\ wcUsed' = TRUE
            /\ hints' = hints \cup
                   {[cand |-> idx, pid |-> ClientPid(players[idx + 1], idx),
                     sess |-> cookie]}
    /\ UNCHANGED <<idx, gstate, correct, wrong, skips, ended, clickable, tint,
                   showQ, shown, hl, reason, endPosts, moves, cookie,
                   gameVars, serverVars>>

\* the response of /api/wildcard_hint arrives (the handler does not write the
\* session): the .then(d => ...) callback of doWildcard runs
HintReply(h) ==
    LET cells == api_wildcard_hint(h.sess, grid, h.pid, ds)
    IN  /\ h \in hints
        /\ hints' = hints \ {h}
        /\ hl' = hl \cup {i \in cells : gstate[i + 1] = None}
        /\ UNCHANGED <<idx, gstate, correct, wrong, skips, wcUsed, ended, clickable,
                       tint, showQ, shown, reason, endPosts, moves, cookie,
                       gameVars, serverVars>>

\* the fetch of doWildcard rejects: it has no .catch
HintFail(h) ==
    /\ h \in hints
    /\ hints' = hints \ {h}
    /\ UNCHANGED <<clientVars, moves, cookie, gameVars, serverVars>>

\* quitGame with the confirm() accepted
quitGame ==
    /\ end("quit")
    /\ tint' = TintAfterEnd(tint)
    /\ UNCHANGED <<idx, gstate, correct, wrong, skips, wcUsed, clickable, showQ,
                   shown, hl, netVars, gameVars, serverVars>>

SessionNext ==
    \/ showP
    \/ timeUp
    \/ \E i \in Cells : clickCell(i)
    \/ \E m \in moves : MoveReply(m)
    \/ \E m \in moves : MoveFail(m)
    \/ doSkip
    \/ doWildcard
    \/ \E h \in hints : HintReply(h)
    \/ \E h \in hints : HintFail(h)
    \/ quitGame

(* ------------------------------------------------------------------ *)
(* A caller of the HTTP API                                            *)
(* ------------------------------------------------------------------ *)
DataSources == {"overall", "ipl26"}

\* the player_id values a request carries: ids of the pools, positional ids
\* inside and outside the pools, and an id of no player
ApiPids == {"p1", "p2", "q1", "player_0", "player_2", "player_7", "nobody"}

\* the cell_idx values a request carries: missing, or an integer from below
\* -len(grid) up to len(grid)
ApiIdx == {NoIdx} \cup {<<i>> : i \in (0 - NumCells - 1)..NumCells}

\* GET /play stores a new game_state in the session
play ==
    /\ apiSess' = FreshSession(grid)
    /\ apiRet' = [NoCall EXCEPT !.op = "play", !.status = 200]
    /\ UNCHANGED <<page, gameVars, sessionVars, mmVars, dbVars, greenVars>>

\* POST /api/validate_move
ApiValidateMove(pid, cidx, src) ==
    LET r == api_validate_move(apiSess, grid, pid, cidx, src)
    IN  /\ apiSess' = r.sess
        /\ apiRet' = [op |-> "validate_move", pid |-> pid, cidx |-> cidx,
                      status |-> r.status, correct |-> r.correct,
                      reason |-> r.reason, cell |-> r.cell, cells |-> {}]
        /\ UNCHANGED <<page, gameVars, sessionVars, mmVars, dbVars, greenVars>>

\* POST /api/wildcard_hint
ApiWildcardHint(pid, src) ==
    /\ apiRet' = [NoCall EXCEPT !.op = "wildcard_hint", !.pid = pid, !.status = 200,
                                !.cells = api_wildcard_hint(apiSess, grid, pid, src)]
    /\ UNCHANGED <<apiSess, page, gameVars, sessionVars, mmVars, dbVars, greenVars>>

ApiNext ==
    \/ play
    \/ \E pid \in ApiPids, cidx \in ApiIdx, src \in DataSources :
          ApiValidateMove(pid, cidx, src)
    \/ \E pid \in ApiPids, src \in DataSources : ApiWildcardHint(pid, src)

(* ------------------------------------------------------------------ *)
(* Matchmaking                                                         *)
(*   Each handler runs to its end before the next one starts: the      *)
(*   server is a gevent loop and sqlite3 calls do not yield.           *)
(* ------------------------------------------------------------------ *)
Users == 1..NumUsers

\* the outcomes of gen_room_code
RoomCodes == 0..(NumCodes - 1)

\* the (data_source, grid_size, difficulty) a join_matchmaking event carries
Params ==
    { [ds |-> "overall", gs |-> 3, diff |-> "normal"],
      [ds |-> "ipl26",   gs |-> 3, diff |-> "normal"],
      [ds |-> "overall", gs |-> 4, diff |-> "normal"],
      [ds |-> "overall", gs |-> 3, diff |-> "hard"] }

\* a row of season_ratings (has: the row exists); rating has DEFAULT 1200,
\* the counters have DEFAULT 0
NoRow ==
    [has |-> FALSE, rating |-> DefaultRating, wins |-> 0, losses |-> 0,
     total_games |-> 0, win_streak |-> 0, best_streak |-> 0]

\* the row INSERT ... VALUES(?,?,r) makes
RatingRow(r) == [NoRow EXCEPT !.has = TRUE, !.rating = r]

\* a row with a history
PlayedRow(r, w, l, ws, bs) ==
    [has |-> TRUE, rating |-> r, wins |-> w, losses |-> l,
     total_games |-> w + l, win_streak |-> ws, best_streak |-> bs]

\* season_ratings when the model starts: user 1 has no row, the others have
\* played rated matches
RatingsAtStart ==
    [u \in Users |->
        CASE u = 2 -> PlayedRow(1500, 2, 1, 0, 2)
          [] u = 3 -> PlayedRow(1501, 1, 0, 1, 1)
          [] u = 4 -> PlayedRow(1201, 1, 1, 0, 1)
          [] OTHER -> NoRow]

RatingsInit == season_ratings = RatingsAtStart

\* active_games.game_state of a room: the game was generated (a grid and a
\* candidate queue are in it), and the dict results as a set of entries
GameState(generated, results) == [generated |-> generated, results |-> results]

\* no row has a game_state, no match was played
RoomsInit ==
    /\ game_state = [c \in RoomCodes |-> GameState(FALSE, {})]
    /\ matches = << >>

get_user_rating(uid) ==
    IF uid \in Users /\ season_ratings[uid].has
    THEN season_ratings[uid].rating
    ELSE DefaultRating

Abs(x) == IF x < 0 THEN 0 - x ELSE x

\* seeded fault: the window is open at its upper end
Compatible_OpenWindow(t, me, rat, p) ==
    /\ t.user_id # me
    /\ t.data_source = p.ds /\ t.grid_size = p.gs /\ t.difficulty = p.diff
    /\ Abs(t.rating - rat) < MatchWindow

\* the WHERE clause of the candidate query
Compatible(t, me, rat, p) ==
    /\ t.user_id # me
    /\ t.data_source = p.ds /\ t.grid_size = p.gs /\ t.difficulty = p.diff
    /\ Abs(t.rating - rat) <= MatchWindow

\* seeded fault: the ORDER BY is missing
Closest_AnyRow(c, rat) == c

\* ORDER BY ABS(rating-?) ASC LIMIT 1: the rows the query can return
Closest(c, rat) ==
    {t \in c : \A o \in c : Abs(t.rating - rat) <= Abs(o.rating - rat)}

Ticket(uid, rat, p) ==
    [user_id |-> uid, rating |-> rat, data_source |-> p.ds,
     grid_size |-> p.gs, difficulty |-> p.diff]

\* the row on_queue inserts into active_games
RatedRoom(code, p1, p2) ==
    [room_code |-> code, player1_id |-> p1, player2_id |-> p2,
     mode |-> "rated", status |-> "active"]

\* seeded fault: a plain INSERT into a table without the UNIQUE constraint
InsertOrReplace_Insert(q, t) == q \cup {t}

\* INSERT OR REPLACE INTO matchmaking_queue: user_id is UNIQUE
InsertOrReplace(q, t) == {x \in q : x.user_id # t.user_id} \cup {t}

\* the statements of on_queue on matchmaking_queue and active_games
JoinQueue(me, p) ==
    LET rat   == get_user_rating(me)
        q1    == InsertOrReplace(queue, Ticket(me, rat, p))
        cands == Closest({t \in q1 : Compatible(t, me, rat, p)}, rat)
    IN  /\ IF cands # {}
           THEN \E opp \in cands, code \in RoomCodes :
                   /\ queue' = {t \in q1 : t.user_id \notin {me, opp.user_id}}
                   \* room_code is UNIQUE: the INSERT of a code in use raises
                   \* IntegrityError, after the DELETE was committed
                   /\ IF \E r \in rooms : r.room_code = code
                      THEN UNCHANGED <<rooms, game_state>>
                      ELSE /\ rooms' = rooms \cup {RatedRoom(code, opp.user_id, me)}
                           /\ game_state' =
                                 [game_state EXCEPT ![code] =
                                     GameState(Len(get_pool(p.ds)) > 0, {})]
           ELSE /\ queue' = q1
                /\ UNCHANGED <<rooms, game_state>>

\* the event join_matchmaking from user me
on_queue(me, p) ==
    /\ JoinQueue(me, p)
    /\ UNCHANGED <<season_ratings, matches, greenVars>>
    /\ UNCHANGED <<gameVars, sessionVars, apiVars>>

\* seeded fault: the DELETE has no WHERE clause
on_leave_q_NoWhere(me) ==
    /\ queue' = {}
    /\ UNCHANGED <<rooms, dbVars, greenVars, gameVars, sessionVars, apiVars>>

\* the event leave_matchmaking from user me
on_leave_q(me) ==
    /\ queue' = {t \in queue : t.user_id # me}
    /\ UNCHANGED <<rooms, dbVars, greenVars, gameVars, sessionVars, apiVars>>

MMNext ==
    \/ \E me \in Users, p \in Params : on_queue(me, p)
    \/ \E me \in Users : on_leave_q(me)

(* ------------------------------------------------------------------ *)
(* Rooms: api_create_room, room, on_start                              *)
(* ------------------------------------------------------------------ *)
\* SQL NULL in player2_id
NoUser == 0

\* no room_code in the request
NoCode == 0 - 1

HasRow(code) == \E r \in rooms : r.room_code = code

\* SELECT * FROM active_games WHERE room_code=?  (room_code is UNIQUE)
RowOf(code) == CHOOSE r \in rooms : r.room_code = code

\* UPDATE active_games SET ... WHERE room_code=?
UpdateRow(code, new) == (rooms \ {RowOf(code)}) \cup {new}

\* the row api_create_room inserts: status has DEFAULT 'waiting'
FriendsRoom(code, host) ==
    [room_code |-> code, player1_id |-> host, player2_id |-> NoUser,
     mode |-> "friends", status |-> "waiting"]

\* POST /api/create_room by user u, gen_room_code returning code
api_create_room(u, code) ==
    /\ IF HasRow(code)
       \* room_code is UNIQUE: the INSERT raises IntegrityError
       THEN UNCHANGED <<rooms, game_state>>
       ELSE /\ rooms' = rooms \cup {FriendsRoom(code, u)}
            /\ game_state' = [game_state EXCEPT ![code] = GameState(FALSE, {})]
    /\ UNCHANGED <<queue, season_ratings, matches, greenVars>>
    /\ UNCHANGED <<gameVars, sessionVars, apiVars>>

\* seeded fault: the UPDATE does not test player2_id IS NULL
JoinSeats_NoNullTest(row, u) ==
    IF row.player1_id # u THEN [row EXCEPT !.player2_id = u] ELSE row

\* the row after room() ran for user u and a row that is not active
JoinSeats(row, u) ==
    IF row.player1_id # u /\ row.player2_id = NoUser
    THEN [row EXCEPT !.player2_id = u]
    ELSE row

\* what room() returns to user u
room_reply(u, code) ==
    CASE ~HasRow(code) -> "redirect /"
      [] HasRow(code) /\ RowOf(code).status = "active" -> "redirect /play"
      [] OTHER -> "ROOM_BODY"

\* GET /room/<code> by user u
room(u, code) ==
    /\ IF HasRow(code) /\ RowOf(code).status # "active"
       THEN rooms' = UpdateRow(code, JoinSeats(RowOf(code), u))
       ELSE rooms' = rooms
    /\ UNCHANGED <<queue, dbVars, greenVars>>
    /\ UNCHANGED <<gameVars, sessionVars, apiVars>>

\* seeded fault: on_start does not compare player1_id with the user
MayStart_AnyUser(u, code) == HasRow(code)

\* on_start goes on past its early return
MayStart(u, code) == HasRow(code) /\ RowOf(code).player1_id = u

\* the event start_room_game from user u for room code and data source src
on_start(u, code, src) ==
    /\ IF MayStart(u, code)
       THEN /\ rooms' = UpdateRow(code, [RowOf(code) EXCEPT !.status = "active"])
            /\ game_state' = [game_state EXCEPT ![code] =
                                 GameState(Len(get_pool(src)) > 0, {})]
       ELSE UNCHANGED <<rooms, game_state>>
    /\ UNCHANGED <<queue, season_ratings, matches, greenVars>>
    /\ UNCHANGED <<gameVars, sessionVars, apiVars>>

(* ------------------------------------------------------------------ *)
(* The end of a game: api_end_game, elo_expected, elo_update           *)
(*   Ratings are whole points.  elo_expected is in 32nds, rounded to   *)
(*   the nearest: EloSteps[k] is the largest b - a for which           *)
(*   32 / (1 + 10 ** ((b - a) / 400)) rounds to k or more.             *)
(* ------------------------------------------------------------------ *)
EloSteps ==
    << 719, 523, 428, 364, 314, 273, 237, 205, 176, 149, 124, 100, 77, 54, 32, 10,
       0 - 11, 0 - 33, 0 - 55, 0 - 78, 0 - 101, 0 - 125, 0 - 150, 0 - 177,
       0 - 206, 0 - 238, 0 - 274, 0 - 315, 0 - 365, 0 - 429, 0 - 524, 0 - 720 >>

\* the value 1 of an expected or actual score
EloOne == Len(EloSteps)

elo_expected(a, b) == Cardinality({k \in 1..EloOne : b - a <= EloSteps[k]})

\* exp and act in units of 1 / EloOne
elo_update(r, exp, act) == r + (EloK * (act - exp)) \div EloOne

\* seeded fault: the second rating is computed against the updated first one
SettledRatings_Sequential(rat1, rat2, act1) ==
    LET new1 == elo_update(rat1, elo_expected(rat1, rat2), act1)
    IN  <<new1, elo_update(rat2, elo_expected(rat2, new1), EloOne - act1)>>

\* new1, new2 of api_end_game
SettledRatings(rat1, rat2, act1) ==
    LET exp1 == elo_expected(rat1, rat2)
    IN  <<elo_update(rat1, exp1, act1),
          elo_update(rat2, EloOne - exp1, EloOne - act1)>>

\* results[str(uid)] = {"score": score, "elapsed": elapsed}
PutResult(results, uid, score, elapsed) ==
    {e \in results : e.user # uid}
       \cup {[user |-> uid, score |-> score, elapsed |-> elapsed]}

\* results.get(str(uid), {"score": 0, "elapsed": 9999})
GetResult(results, uid) ==
    IF \E e \in results : e.user = uid
    THEN CHOOSE e \in results : e.user = uid
    ELSE [user |-> uid, score |-> 0, elapsed |-> DefaultElapsed]

\* seeded fault: the slower player wins a tie on the score
Winner_SlowerWinsTie(p1, p2, r1, r2) ==
    IF r1.score > r2.score \/ (r1.score = r2.score /\ r1.elapsed >= r2.elapsed)
    THEN p1 ELSE p2

Winner(p1, p2, r1, r2) ==
    IF r1.score > r2.score \/ (r1.score = r2.score /\ r1.elapsed <= r2.elapsed)
    THEN p1 ELSE p2

\* ensure_season_rating: INSERT OR IGNORE; no row has the user_id NULL
EnsureRow(table, uid) ==
    IF uid \notin Users \/ table[uid].has
    THEN table
    ELSE [table EXCEPT ![uid] = RatingRow(DefaultRating)]

Max2(a, b) == IF a >= b THEN a ELSE b

\* seeded fault: best_streak is not raised
RatedRow_BestKept(row, nr, w) ==
    [row EXCEPT !.rating = nr,
                !.wins = row.wins + w,
                !.losses = row.losses + (1 - w),
                !.total_games = row.total_games + 1,
                !.win_streak = IF w = 1 THEN row.win_streak + 1 ELSE 0]

\* seeded fault: total_games is not counted up
RatedRow_GameNotCounted(row, nr, w) ==
    [row EXCEPT !.rating = nr,
                !.wins = row.wins + w,
                !.losses = row.losses + (1 - w),
                !.win_streak = IF w = 1 THEN row.win_streak + 1 ELSE 0,
                !.best_streak = Max2(row.best_streak,
                                     IF w = 1 THEN row.win_streak + 1
                                              ELSE row.best_streak)]

\* the SET clause of the UPDATE of a settlement; w is 1 for the winner.  The
\* right-hand sides read the row as it was.
RatedRow(row, nr, w) ==
    [row EXCEPT !.rating = nr,
                !.wins = row.wins + w,
                !.losses = row.losses + (1 - w),
                !.total_games = row.total_games + 1,
                !.win_streak = IF w = 1 THEN row.win_streak + 1 ELSE 0,
                !.best_streak = Max2(row.best_streak,
                                     IF w = 1 THEN row.win_streak + 1
                                              ELSE row.best_streak)]

\* UPDATE season_ratings SET ... WHERE user_id=?
SetRating(table, uid, nr, w) ==
    IF uid \in Users /\ table[uid].has
    THEN [table EXCEPT ![uid] = RatedRow(table[uid], nr, w)]
    ELSE table

\* UPDATE season_ratings SET total_games=total_games+1 WHERE user_id=?
AddGame(table, uid) ==
    [table EXCEPT ![uid].total_games = table[uid].total_games + 1]

\* the row api_end_game inserts into matches
MatchRow(p1, p2, winner, r1, r2, delta) ==
    [player1_id |-> p1, player2_id |-> p2, winner_id |-> winner,
     player1_score |-> r1.score, player2_score |-> r2.score,
     player1_time |-> r1.elapsed, player2_time |-> r2.elapsed,
     rating_change |-> Abs(delta), mode |-> "rated"]

\* the branch of api_end_game for mode "rated": the row of the room exists
\* and is not finished
\* json.loads(row["game_state"]) is None: on_queue or on_start stored the None
\* create_game_state returned (api_create_room stores a dict)
IsNull(code) == RowOf(code).status # "waiting" /\ ~game_state[code].generated

EndRated(u, code, score, elapsed) ==
    LET row     == RowOf(code)
        results == PutResult(game_state[code].results, u, score, elapsed)
        gs      == [game_state EXCEPT ![code].results = results]
        p1      == row.player1_id
        p2      == row.player2_id
        r1      == GetResult(results, p1)
        r2      == GetResult(results, p2)
        winner  == Winner(p1, p2, r1, r2)
        rat1    == get_user_rating(p1)
        rat2    == get_user_rating(p2)
        act1    == IF winner = p1 THEN EloOne ELSE 0
        new     == SettledRatings(rat1, rat2, act1)
    IN  IF Cardinality(results) >= 2
        THEN /\ season_ratings' =
                   LET w1 == IF winner = p1 THEN 1 ELSE 0
                       t0 == EnsureRow(EnsureRow(season_ratings, p1), p2)
                   IN  SetRating(SetRating(t0, p1, new[1], w1), p2, new[2], 1 - w1)
             /\ matches' = Append(matches,
                              MatchRow(p1, p2, winner, r1, r2, new[1] - rat1))
             /\ rooms' = UpdateRow(code, [row EXCEPT !.status = "finished"])
             /\ game_state' = gs
        ELSE /\ game_state' = gs
             /\ UNCHANGED <<rooms, season_ratings, matches>>

\* the request bodies of /api/end_game
GModes == {"rated", "friends", "daily"}

\* <<score, elapsed>>
Reports == {<<500, 60>>, <<500, 45>>, <<400, 45>>}

AReport == <<500, 60>>

\* POST /api/end_game by user u.  The table daily_results and the columns
\* accuracy_sum and time_sum of season_ratings are not part of the state.
api_end_game(u, gmode, code, score, elapsed) ==
    /\ CASE gmode = "daily" ->
              UNCHANGED <<rooms, game_state, season_ratings, matches>>
         [] gmode = "rated" /\ code # NoCode ->
              \* gs.get raises AttributeError on None
              IF HasRow(code) /\ RowOf(code).status # "finished" /\ ~IsNull(code)
              THEN EndRated(u, code, score, elapsed)
              ELSE UNCHANGED <<rooms, game_state, season_ratings, matches>>
         [] OTHER ->
              /\ season_ratings[u].total_games < MaxGames
              /\ season_ratings' = AddGame(EnsureRow(season_ratings, u), u)
              /\ UNCHANGED <<rooms, game_state, matches>>
    /\ UNCHANGED <<queue, greenVars>>
    /\ UNCHANGED <<gameVars, sessionVars, apiVars>>

\* the parameters the matchmaking page sends by default
BaseParams == [ds |-> "overall", gs |-> 3, diff |-> "normal"]

\* the room whose page is opened and whose game is played: rows of
\* active_games do not refer to one another
FirstCode == CHOOSE c \in RoomCodes : \A d \in RoomCodes : c <= d

\* the user who has no season_ratings row when the model starts
FirstUser == CHOOSE u \in Users : \A v \in Users : u <= v

(* ------------------------------------------------------------------ *)
(* The matchmaking page                                                *)
(*   page[u]: "home", "matchmaking", "room" or "solo"                  *)
(* ------------------------------------------------------------------ *)
\* no user has a game or the matchmaking page open
PagesInit == page = [u \in Users |-> "home"]

\* the page is loaded: its script emits join_matchmaking, which on_queue handles
mm_open(u, p) ==
    /\ page[u] # "matchmaking"
    /\ page' = [page EXCEPT ![u] = "matchmaking"]
    /\ JoinQueue(u, p)
    /\ UNCHANGED <<season_ratings, matches, greenVars>>
    /\ UNCHANGED <<apiSess, apiRet, gameVars, sessionVars>>

\* sock.on('match_found', ...): the page of a user who was paired goes to the room
match_found(u) ==
    /\ page[u] = "matchmaking"
    /\ \A t \in queue : t.user_id # u
    /\ \E r \in rooms : r.mode = "rated" /\ u \in {r.player1_id, r.player2_id}
    /\ page' = [page EXCEPT ![u] = "room"]
    /\ UNCHANGED <<apiSess, apiRet, mmVars, dbVars, greenVars, gameVars, sessionVars>>

\* the setTimeout of 30000 ms runs: the page goes to /play with mode=solo and
\* emits nothing
mm_timeout(u) ==
    /\ page[u] = "matchmaking"
    /\ page' = [page EXCEPT ![u] = "solo"]
    /\ UNCHANGED <<apiSess, apiRet, mmVars, dbVars, greenVars, gameVars, sessionVars>>

\* cancel(): emits leave_matchmaking, which on_leave_q handles, and goes to /
mm_cancel(u) ==
    /\ page[u] = "matchmaking"
    /\ page' = [page EXCEPT ![u] = "home"]
    /\ queue' = {t \in queue : t.user_id # u}
    /\ UNCHANGED <<apiSess, apiRet, rooms, dbVars, greenVars, gameVars, sessionVars>>

PageNext ==
    \/ \E u \in Users : mm_open(u, BaseParams)
    \/ \E u \in Users : match_found(u)
    \/ \E u \in Users : mm_timeout(u)
    \/ \E u \in Users : mm_cancel(u)

\* friends rooms from their creation to the end of the game
RoomNext ==
    \/ \E u \in Users, code \in RoomCodes : api_create_room(u, code)
    \/ \E u \in Users : room(u, FirstCode)
    \/ \E u \in Users, src \in DataSources : on_start(u, FirstCode, src)
    \/ /\ Len(matches) < MaxMatches
       /\ \E u \in Users :
             api_end_game(u, "rated", FirstCode, AReport[1], AReport[2])

\* rated rooms from the pairing to the end of the game
RatedNext ==
    \/ \E me \in Users : on_queue(me, BaseParams)
    \/ \E u \in Users, r \in Reports :
          api_end_game(u, "rated", FirstCode, r[1], r[2])

\* rooms of both modes that are started again after their end, and games
\* that end outside a room
GamesNext ==
    \/ \E me \in Users : on_queue(me, BaseParams)
    \/ \E u \in Users : api_create_room(u, FirstCode)
    \/ \E u \in Users : room(u, FirstCode)
    \/ \E u \in Users, src \in DataSources : on_start(u, FirstCode, src)
    \/ /\ Len(matches) < MaxReplays
       /\ \E u \in Users :
             api_end_game(u, "rated", FirstCode, AReport[1], AReport[2])
    \/ \E gmode \in GModes \ {"rated"}, code \in {FirstCode, NoCode} :
          api_end_game(FirstUser, gmode, code, AReport[1], AReport[2])

\* a better and a worse report
TwoReports == {AReport, <<400, 45>>}

\* every kind of end-of-game submission
RowsNext ==
    \/ \E me \in Users : on_queue(me, BaseParams)
    \/ \E u \in Users, r \in TwoReports :
          api_end_game(u, "rated", FirstCode, r[1], r[2])
    \/ \E gmode \in GModes \ {"rated"} :
          api_end_game(FirstUser, gmode, NoCode, AReport[1], AReport[2])

(* ------------------------------------------------------------------ *)
(* on_queue statement by statement                                     *)
(*   A greenlet runs on_queue for each join_matchmaking event.  The    *)
(*   hub switches greenlets only where the running one yields; the     *)
(*   sqlite3 calls of query_db do not yield, emit does.                *)
(* ------------------------------------------------------------------ *)
\* a greenlet that is not inside api_end_game
NoLocals ==
    [row |-> FriendsRoom(FirstCode, NoUser), gs |-> GameState(FALSE, {}),
     rat1 |-> 0, new1 |-> 0, new2 |-> 0]

\* no greenlet exists
GreenInit ==
    /\ pc = [u \in Users |-> [at |-> "idle", p |-> BaseParams]]
    /\ found = [u \in Users |-> {}]
    /\ loc = [u \in Users |-> NoLocals]
    /\ running = NoUser

\* seeded fault: the handlers run on preemptive threads
CanRun_Preemptive(me) == TRUE

\* the greenlet of user me can take a step: no other greenlet is between two
\* yields
CanRun(me) == running \in {NoUser, me}

\* the event arrives; rat is read; INSERT OR REPLACE INTO matchmaking_queue
q_insert(me, p) ==
    /\ pc[me].at = "idle" /\ CanRun(me)
    /\ queue' = InsertOrReplace(queue, Ticket(me, get_user_rating(me), p))
    /\ pc' = [pc EXCEPT ![me] = [at |-> "select", p |-> p]]
    /\ running' = me
    /\ UNCHANGED <<found, rooms, dbVars, loc, gameVars, sessionVars, apiVars>>

\* cands = SELECT ... ORDER BY ABS(rating-?) ASC LIMIT 1
q_select(me) ==
    /\ pc[me].at = "select" /\ CanRun(me)
    /\ LET rat   == get_user_rating(me)
           cands == Closest({t \in queue : Compatible(t, me, rat, pc[me].p)}, rat)
       IN  IF cands # {}
           THEN /\ \E opp \in cands : found' = [found EXCEPT ![me] = {opp}]
                /\ pc' = [pc EXCEPT ![me].at = "delete"]
           ELSE /\ found' = [found EXCEPT ![me] = {}]
                /\ pc' = [pc EXCEPT ![me].at = "emit"]
    /\ running' = me
    /\ UNCHANGED <<queue, rooms, dbVars, loc, gameVars, sessionVars, apiVars>>

\* DELETE FROM matchmaking_queue WHERE user_id IN (?,?)
q_delete(me) ==
    /\ pc[me].at = "delete" /\ CanRun(me)
    /\ queue' = {t \in queue :
                    t.user_id \notin {me} \cup {o.user_id : o \in found[me]}}
    /\ pc' = [pc EXCEPT ![me].at = "create"]
    /\ running' = me
    /\ UNCHANGED <<found, rooms, dbVars, loc, gameVars, sessionVars, apiVars>>

\* code = gen_room_code(); INSERT INTO active_games
q_create(me) ==
    /\ pc[me].at = "create" /\ CanRun(me)
    /\ \E opp \in found[me], code \in RoomCodes :
          IF HasRow(code)
          \* IntegrityError ends the greenlet
          THEN /\ pc' = [pc EXCEPT ![me] = [at |-> "idle", p |-> BaseParams]]
               /\ running' = NoUser
               /\ UNCHANGED <<rooms, game_state>>
          ELSE /\ rooms' = rooms \cup {RatedRoom(code, opp.user_id, me)}
               /\ game_state' = [game_state EXCEPT ![code] =
                                    GameState(Len(get_pool(pc[me].p.ds)) > 0, {})]
               /\ pc' = [pc EXCEPT ![me].at = "emit"]
               /\ running' = me
    /\ found' = [found EXCEPT ![me] = {}]
    /\ UNCHANGED <<queue, season_ratings, matches, loc, gameVars, sessionVars, apiVars>>

\* emit("match_found", ...) or emit("matchmaking_status", ...): the greenlet
\* yields and ends
q_emit(me) ==
    /\ pc[me].at = "emit" /\ CanRun(me)
    /\ pc' = [pc EXCEPT ![me] = [at |-> "idle", p |-> BaseParams]]
    /\ running' = NoUser
    /\ UNCHANGED <<found, queue, rooms, dbVars, loc, gameVars, sessionVars, apiVars>>

StepsNext ==
    \/ \E me \in Users, p \in Params : q_insert(me, p)
    \/ \E me \in Users : q_select(me)
    \/ \E me \in Users : q_delete(me)
    \/ \E me \in Users : q_create(me)
    \/ \E me \in Users : q_emit(me)

(* ------------------------------------------------------------------ *)
(* api_end_game statement by statement, for mode "rated"               *)
(*   Every query_db(..., commit=True) is a transaction of its own.     *)
(* ------------------------------------------------------------------ *)
Idle == [at |-> "idle", p |-> BaseParams]

\* winner of api_end_game, from its local variables
LocWinner(l) ==
    Winner(l.row.player1_id, l.row.player2_id,
           GetResult(l.gs.results, l.row.player1_id),
           GetResult(l.gs.results, l.row.player2_id))

\* the request arrives: SELECT the row, add the result to the dict read from
\* it, and for two results or more compute the winner and the new ratings
e_select(u, code, r) ==
    /\ pc[u].at = "idle" /\ CanRun(u)
    /\ HasRow(code) /\ RowOf(code).status # "finished" /\ ~IsNull(code)
    /\ LET row     == RowOf(code)
           results == PutResult(game_state[code].results, u, r[1], r[2])
           gs      == [game_state[code] EXCEPT !.results = results]
           p1      == row.player1_id
           p2      == row.player2_id
           winner  == Winner(p1, p2, GetResult(results, p1), GetResult(results, p2))
           rat1    == get_user_rating(p1)
           new     == SettledRatings(rat1, get_user_rating(p2),
                                     IF winner = p1 THEN EloOne ELSE 0)
       IN  IF Cardinality(results) >= 2
           THEN /\ loc' = [loc EXCEPT ![u] = [row |-> row, gs |-> gs, rat1 |-> rat1,
                                              new1 |-> new[1], new2 |-> new[2]]]
                /\ pc' = [pc EXCEPT ![u].at = "ensure"]
           ELSE /\ loc' = [loc EXCEPT ![u] = [NoLocals EXCEPT !.row = row, !.gs = gs]]
                /\ pc' = [pc EXCEPT ![u].at = "write"]
    /\ running' = u
    /\ UNCHANGED <<found, mmVars, dbVars, gameVars, sessionVars, apiVars>>

\* ensure_season_rating(p1), ensure_season_rating(p2)
e_ensure(u) ==
    /\ pc[u].at = "ensure" /\ CanRun(u)
    /\ season_ratings' = EnsureRow(EnsureRow(season_ratings, loc[u].row.player1_id),
                                   loc[u].row.player2_id)
    /\ pc' = [pc EXCEPT ![u].at = "update1"]
    /\ running' = u
    /\ UNCHANGED <<found, loc, mmVars, game_state, matches, gameVars, sessionVars, apiVars>>

\* UPDATE season_ratings ... WHERE user_id = p1
e_update1(u) ==
    /\ pc[u].at = "update1" /\ CanRun(u)
    /\ LET p1 == loc[u].row.player1_id
       IN  season_ratings' = SetRating(season_ratings, p1, loc[u].new1,
                                       IF LocWinner(loc[u]) = p1 THEN 1 ELSE 0)
    /\ pc' = [pc EXCEPT ![u].at = "update2"]
    /\ running' = u
    /\ UNCHANGED <<found, loc, mmVars, game_state, matches, gameVars, sessionVars, apiVars>>

\* UPDATE season_ratings ... WHERE user_id = p2
e_update2(u) ==
    /\ pc[u].at = "update2" /\ CanRun(u)
    /\ LET p2 == loc[u].row.player2_id
       IN  season_ratings' = SetRating(season_ratings, p2, loc[u].new2,
                                       IF LocWinner(loc[u]) = p2 THEN 1 ELSE 0)
    /\ pc' = [pc EXCEPT ![u].at = "match"]
    /\ running' = u
    /\ UNCHANGED <<found, loc, mmVars, game_state, matches, gameVars, sessionVars, apiVars>>

\* INSERT INTO matches
e_match(u) ==
    /\ pc[u].at = "match" /\ CanRun(u)
    /\ LET l  == loc[u]
           p1 == l.row.player1_id
           p2 == l.row.player2_id
       IN  matches' = Append(matches,
                         MatchRow(p1, p2, LocWinner(l), GetResult(l.gs.results, p1),
                                  GetResult(l.gs.results, p2), l.new1 - l.rat1))
    /\ pc' = [pc EXCEPT ![u].at = "finish"]
    /\ running' = u
    /\ UNCHANGED <<found, loc, mmVars, game_state, season_ratings, gameVars,
                   sessionVars, apiVars>>

\* UPDATE active_games SET status='finished', game_state=?; the response
e_finish(u) ==
    /\ pc[u].at = "finish" /\ CanRun(u)
    /\ LET code == loc[u].row.room_code
       IN  /\ rooms' = UpdateRow(code, [RowOf(code) EXCEPT !.status = "finished"])
           /\ game_state' = [game_state EXCEPT ![code] = loc[u].gs]
    /\ pc' = [pc EXCEPT ![u] = Idle]
    /\ loc' = [loc EXCEPT ![u] = NoLocals]
    /\ running' = NoUser
    /\ UNCHANGED <<found, queue, season_ratings, matches, gameVars, sessionVars, apiVars>>

\* fewer than two results: UPDATE active_games SET game_state=?; the response
e_write(u) ==
    /\ pc[u].at = "write" /\ CanRun(u)
    /\ game_state' = [game_state EXCEPT ![loc[u].row.room_code] = loc[u].gs]
    /\ pc' = [pc EXCEPT ![u] = Idle]
    /\ loc' = [loc EXCEPT ![u] = NoLocals]
    /\ running' = NoUser
    /\ UNCHANGED <<found, mmVars, season_ratings, matches, gameVars, sessionVars, apiVars>>

\* the statements of api_end_game after the SELECT
EndSteps(u) ==
    \/ e_ensure(u) \/ e_update1(u) \/ e_update2(u)
    \/ e_match(u) \/ e_finish(u) \/ e_write(u)

\* the handler does not reach its end: a statement raises (sqlite3 reports an
\* I/O error or a locked database) or the server process stops
e_fail(u) ==
    /\ pc[u].at \in {"ensure", "update1", "update2", "match", "finish", "write"}
    /\ \A v \in Users :
          season_ratings[v].total_games - RatingsAtStart[v].total_games < MaxReplays
    /\ pc' = [pc EXCEPT ![u] = Idle]
    /\ loc' = [loc EXCEPT ![u] = NoLocals]
    /\ running' = NoUser
    /\ UNCHANGED <<found, mmVars, dbVars, gameVars, sessionVars, apiVars>>

\* a rated room and the end-of-game requests for it
EndNext ==
    \/ /\ running = NoUser
       /\ \E me \in Users : on_queue(me, BaseParams)
    \/ \E u \in Users, r \in Reports : e_select(u, FirstCode, r)
    \/ \E u \in Users : e_ensure(u)
    \/ \E u \in Users : e_update1(u)
    \/ \E u \in Users : e_update2(u)
    \/ \E u \in Users : e_match(u)
    \/ \E u \in Users : e_finish(u)
    \/ \E u \in Users : e_write(u)

\* the same, with handlers that fail
FailNext ==
    \/ EndNext
    \/ \E u \in Users : e_fail(u)

(* ------------------------------------------------------------------ *)
(* GET /play: a game is started                                        *)
(* ------------------------------------------------------------------ *)
\* play() with any query string: for a solo game of data source src (code = NoCode) or for the room
\* code: without a state that has players the answer is the page "No player
\* data found" with status 500 and the session is left alone; otherwise the
\* state is put into the session and the game page is rendered
play_request(src, code) ==
    /\ code # NoCode => HasRow(code)
    /\ LET has_state == IF code = NoCode THEN Len(get_pool(src)) > 0
                        ELSE game_state[code].generated
       IN  IF has_state
           THEN /\ apiSess' \in {FreshSession(g) : g \in Grids}
                /\ apiRet' = [NoCall EXCEPT !.op = "play", !.status = 200]
           ELSE /\ apiSess' = apiSess
                /\ apiRet' = [NoCall EXCEPT !.op = "play", !.status = 500]
    /\ UNCHANGED <<page, gameVars, sessionVars, mmVars, dbVars, greenVars>>

\* games are started while ipl26.json is missing
NoDataNext ==
    \/ \E me \in Users, p \in Params : on_queue(me, p)
    \/ \E u \in Users : api_create_room(u, FirstCode)
    \/ \E u \in Users : room(u, FirstCode)
    \/ \E u \in Users, src \in DataSources : on_start(u, FirstCode, src)
    \/ \E src \in DataSources, code \in {FirstCode, NoCode} : play_request(src, code)

(* ------------------------------------------------------------------ *)
(* Calls of player_matches_cell                                        *)
(* ------------------------------------------------------------------ *)
\* a player record with one franchise (Mumbai Indians) and nation Australia
Hayden ==
    [id |-> "p9", name |-> "Hayden", nation |-> AUS, iplTeams |-> <<MI>>,
     team |-> MI, trophies |-> << >>]

Seq2Set(l) == {l[i] : i \in 1..Len(l)}

EvalPlayers == Seq2Set(OVERALL_DATA) \cup Seq2Set(IPL26_DATA) \cup {Hayden}

\* the attribute values cells are made of
EvalValues == {MI, CSK, IND, AUS, CUP}

\* cell["type"]: the four kinds gen_cell makes and one it does not
EvalKinds == {"team", "nation", "trophy", "combo", "player"}

\* cell["value"]: one attribute, or two or three joined as gen_cell joins them
EvalCellValues ==
    EvalValues
      \cup {JoinPlus(a, b) : a \in {MI, CSK}, b \in {IND, AUS, CUP}}
      \cup {JoinPlus(IND, CUP), JoinPlus(JoinPlus(MI, AUS), CUP)}

NoEval ==
    [player |-> Hayden, cell |-> [type |-> "team", value |-> MI], ds |-> "overall",
     done |-> FALSE, out |-> FALSE]

\* the arguments of a call that is about to be made
EvalArgs ==
    { [NoEval EXCEPT !.player = p, !.cell = [type |-> k, value |-> v], !.ds = d] :
        p \in EvalPlayers, k \in EvalKinds, v \in EvalCellValues, d \in DataSources }

\* the call is made and returns
Evaluate ==
    /\ ~ev.done
    /\ ev' = [ev EXCEPT !.done = TRUE,
                        !.out = player_matches_cell(ev.player, ev.cell, ev.ds)]
    /\ UNCHANGED <<pools, ds, grid, players, sc, bg, sessionVars, serverVars>>

EvalNext == Evaluate

(* ------------------------------------------------------------------ *)
(* Calls of calcScore (game client)                                    *)
(*   Date.now() - G.t0 is a number of milliseconds; the score is       *)
(*   computed here in exact fractions with the denominator 2000 * a.   *)
(* ------------------------------------------------------------------ *)
\* seeded fault: the outer Math.max(0, ...) is left out
calcScore_NoClamp(c, w, ms, filled, gs) ==
    LET a    == c + w
        d    == 2000 * (IF a > 0 THEN a ELSE 1)
        over == ms - gs * gs * 15 * 1000
        pen  == IF over > 0 THEN over ELSE 0
        n    == c * 100 * d
                  + (IF a > 0 THEN c * 200 * 2000 ELSE 0)
                  + (IF filled THEN CompletionBonus ELSE 0) * d
                  - pen * (d \div 2000)
    IN  (2 * n + d) \div (2 * d)

\* Math.max(0, Math.round(G.correct * 100 + acc * 2 + (filled ? 200 : 0)
\*                        - Math.max(0, (el - G.gs * G.gs * 15) * 0.5)))
calcScore(c, w, ms, filled, gs) ==
    LET a    == c + w
        \* the common denominator of acc * 2 = 200 c / a and of the penalty
        d    == 2000 * (IF a > 0 THEN a ELSE 1)
        \* milliseconds over the allowance of 15 s per cell
        over == ms - gs * gs * 15 * 1000
        pen  == IF over > 0 THEN over ELSE 0
        \* the argument of Math.round, times d
        n    == c * 100 * d
                  + (IF a > 0 THEN c * 200 * 2000 ELSE 0)
                  + (IF filled THEN CompletionBonus ELSE 0) * d
                  - pen * (d \div 2000)
        \* Math.round(x) is floor(x + 1/2)
        rounded == (2 * n + d) \div (2 * d)
    IN  Max2(0, rounded)

\* G.gs: the grid sizes the pages offer
GridSizes == {3, 4}

\* Date.now() - G.t0: before, at and after the allowances of the two grid
\* sizes (135 s, 240 s), and a clock that was set back
ElapsedMs == {0 - 1000, 0, 134999, 135000, 135001, 136000, 240000, 241000,
              400000, 1000000}

NoScore ==
    [correct |-> 0, wrong |-> 0, ms |-> 0, filled |-> FALSE, gs |-> 3,
     done |-> FALSE, score |-> 0]

\* the state of G a call can find
ScoreArgs ==
    { [NoScore EXCEPT !.correct = c, !.wrong = w, !.ms = ms, !.filled = f, !.gs = g] :
        c \in 0..MaxCount, w \in 0..MaxCount, ms \in ElapsedMs, f \in BOOLEAN,
        g \in GridSizes }

\* the call is made and returns
CallCalcScore ==
    /\ ~sc.done
    /\ sc' = [sc EXCEPT !.done = TRUE,
                        !.score = calcScore(sc.correct, sc.wrong, sc.ms, sc.filled, sc.gs)]
    /\ UNCHANGED <<pools, ds, grid, players, ev, bg, sessionVars, serverVars>>

ScoreNext == CallCalcScore

(* ------------------------------------------------------------------ *)
(* GridGenerator: gen_cell, build_grid                                 *)
(*   random.choice is any element; random.shuffle(types) is any order, *)
(*   so the next type is any type of which cells are left to make. The *)
(*   list cells is kept as the number of cells of each type.           *)
(* ------------------------------------------------------------------ *)
UNKNOWN == <<"U">>
QM == <<"?">>

Cell(type, value) == [type |-> type, value |-> value]

\* {p["nation"] for p in pool if p.get("nation")}
Nations(pool) == {pool[i].nation : i \in {j \in 1..Len(pool) : pool[j].nation # << >>}}

\* the team names of the pool under a data source
Teams(pool, src) ==
    IF src = "overall"
    THEN UNION {Seq2Set(pool[i].iplTeams) : i \in 1..Len(pool)}
    ELSE {pool[i].team : i \in {j \in 1..Len(pool) : pool[j].team # << >>}}

\* {t for p in pool for t in p.get("trophies", [])}
Trophies(pool) == UNION {Seq2Set(pool[i].trophies) : i \in 1..Len(pool)}

\* the strings among which gen_cell chooses for a combo of player p
Combos(p, src) ==
    IF src = "overall" /\ p.iplTeams # << >>
    THEN UNION { {JoinPlus(t, p.nation)}
                   \cup UNION { {JoinPlus(t, tr), JoinPlus(p.nation, tr)} :
                                  tr \in Seq2Set(p.trophies) } :
                 t \in Seq2Set(p.iplTeams) }
    ELSE {JoinPlus(IF p.team # << >> THEN p.team ELSE QM,
                   IF p.nation # << >> THEN p.nation ELSE QM)}

\* the cells gen_cell can return
gen_cell(pool, src, difficulty, cell_type) ==
    IF pool = << >> THEN {Cell("team", UNKNOWN)}
    ELSE IF cell_type = "combo" /\ difficulty = "hard"
    THEN {Cell("combo", v) : v \in UNION {Combos(pool[i], src) : i \in 1..Len(pool)}}
    ELSE IF cell_type = "team" /\ Teams(pool, src) # {}
    THEN {Cell("team", v) : v \in Teams(pool, src)}
    ELSE IF cell_type = "trophy" /\ src = "overall" /\ Trophies(pool) # {}
    THEN {Cell("trophy", v) : v \in Trophies(pool)}
    ELSE IF Nations(pool) # {}
    THEN {Cell("nation", v) : v \in Nations(pool)}
    ELSE {Cell("nation", IND)}

CellTypes == {"team", "nation", "trophy", "combo"}
Difficulties == {"easy", "normal", "hard"}

\* seeded fault: normal gives the larger half to the team cells
Quota_TeamsHalfUp(n, difficulty) ==
    CASE difficulty = "easy" -> [t \in CellTypes |-> IF t = "team" THEN n ELSE 0]
      [] difficulty = "hard" ->
            [t \in CellTypes |->
                CASE t = "team" -> n \div 3
                  [] t = "nation" -> n \div 3
                  [] t = "combo" -> n - 2 * (n \div 3)
                  [] OTHER -> 0]
      [] OTHER ->
            [t \in CellTypes |->
                CASE t = "team" -> n - n \div 2
                  [] t = "nation" -> n \div 2
                  [] OTHER -> 0]

\* the list types of build_grid, as the number of entries of each type
Quota(n, difficulty) ==
    CASE difficulty = "easy" -> [t \in CellTypes |-> IF t = "team" THEN n ELSE 0]
      [] difficulty = "hard" ->
            [t \in CellTypes |->
                CASE t = "team" -> n \div 3
                  [] t = "nation" -> n \div 3
                  [] t = "combo" -> n - 2 * (n \div 3)
                  [] OTHER -> 0]
      [] OTHER ->
            [t \in CellTypes |->
                CASE t = "team" -> n \div 2
                  [] t = "nation" -> n - n \div 2
                  [] OTHER -> 0]

NoTypes == [t \in CellTypes |-> 0]

NoBuild ==
    [ds |-> "overall", size |-> 3, difficulty |-> "normal",
     at |-> "none", types |-> NoTypes, cells |-> NoTypes, seen |-> {},
     keep |-> 0, loose |-> {}, dup |-> FALSE]

\* the arguments of a call that is about to be made
BuildArgs ==
    { [NoBuild EXCEPT !.ds = d, !.size = n, !.difficulty = f, !.at = "called"] :
        d \in DataSources, n \in GridSizes, f \in Difficulties }

\* pool = get_pool(ds); an empty pool returns []; types is made and shuffled
bg_types ==
    /\ bg.at = "called"
    /\ IF get_pool(bg.ds) = << >>
       THEN bg' = [bg EXCEPT !.at = "returned"]
       ELSE bg' = [bg EXCEPT !.at = "cells",
                             !.types = Quota(bg.size * bg.size, bg.difficulty)]
    /\ UNCHANGED <<pools, ds, grid, players, ev, sc, sessionVars, serverVars>>

\* the arguments of a call whose cells are followed value by value: the first
\* MaxLoose values appended without being added to seen are kept
DupArgs ==
    { [NoBuild EXCEPT !.ds = d, !.size = 3, !.difficulty = f, !.at = "called",
                      !.keep = MaxLoose] :
        d \in DataSources, f \in Difficulties }

\* the values of appended cells that are not in seen, after the value v was
\* appended without being added to seen; at most b.keep of them are kept
Loose(b, v) ==
    IF v \in b.seen \/ Cardinality(b.loose) >= b.keep THEN b.loose
    ELSE b.loose \cup {v}

\* one round of the loop over types, for an entry t: an attempt among the 20
\* draws a value not yet seen and its cell is appended; or all 20 draw values
\* that were seen and the cell of one more gen_cell is appended, whatever its
\* value, which is not added to seen.
\*   loose: values of appended cells that are not in seen (bg.keep of them)
\*   dup: an attempt that succeeded appended a value the grid already had
bg_cell(t) ==
    /\ bg.at = "cells" /\ bg.types[t] > 0
    /\ LET drawn == gen_cell(get_pool(bg.ds), bg.ds, bg.difficulty, t)
       IN  \E cell \in drawn :
              \/ /\ cell.value \notin bg.seen
                 /\ bg' = [bg EXCEPT !.types[t] = @ - 1,
                                     !.cells[cell.type] = @ + 1,
                                     !.seen = @ \cup {cell.value},
                                     !.loose = @ \ {cell.value},
                                     !.dup = @ \/ cell.value \in bg.loose]
              \/ /\ \E c \in drawn : c.value \in bg.seen
                 /\ bg' = [bg EXCEPT !.types[t] = @ - 1,
                                     !.cells[cell.type] = @ + 1,
                                     !.loose = Loose(bg, cell.value)]
    /\ UNCHANGED <<pools, ds, grid, players, ev, sc, sessionVars, serverVars>>

\* return cells
bg_return ==
    /\ bg.at = "cells" /\ bg.types = NoTypes
    /\ bg' = [bg EXCEPT !.at = "returned"]
    /\ UNCHANGED <<pools, ds, grid, players, ev, sc, sessionVars, serverVars>>

GridNext ==
    \/ bg_types
    \/ \E t \in CellTypes : bg_cell(t)
    \/ bg_return

(* ------------------------------------------------------------------ *)
(* create_game_state                                                   *)
(* ------------------------------------------------------------------ *)
\* the grid_size values a request can carry
QueueSizes == {1, 2, 3}

\* a grid of n cells
GridOf(n) == [i \in 1..n |-> Palette[((i - 1) % Len(Palette)) + 1]]

\* create_game_state(src, size, difficulty): the state it returns becomes the
\* game state of the page; an empty pool returns None and no state is made
create_game_state(src, size) ==
    LET pool == get_pool(src)
        n == size * size
    IN  /\ IF Len(pool) = 0
           THEN UNCHANGED <<ds, grid, players>>
           ELSE /\ ds' = src
                /\ grid' = GridOf(n)
                /\ players' \in {Selected(q, n) : q \in AllShuffles(pool)}
        /\ UNCHANGED <<pools, fnVars, sessionVars, serverVars>>

QueueNext ==
    \E src \in DataSources, size \in QueueSizes : create_game_state(src, size)

vars == <<gameVars, sessionVars, apiVars, mmVars, dbVars, greenVars>>

\* no call of a pure function is followed
FnIdle ==
    /\ ev = NoEval
    /\ sc = NoScore
    /\ bg = NoBuild

\* the page, the API caller, the database and the greenlets at the start
StartInit ==
    /\ GameInit /\ ClientInit /\ ApiIdle /\ PagesInit
    /\ DbInit /\ RatingsInit /\ RoomsInit /\ GreenInit

\* the same, both pools loaded
BaseInit == pools = PoolsLoaded /\ StartInit

Init == BaseInit /\ FnIdle

Next == SessionNext

\* a game session in the browser
Spec == Init /\ [][Next]_vars

\* requests sent to the API directly
SpecApi == Init /\ [][ApiNext]_vars

\* no game page is open: the game state is held at one value
InitMM == Init /\ players = Selected(get_pool(ds), NumCells)

\* the matchmaking queue
SpecMM == InitMM /\ [][MMNext]_vars

\* concurrent join_matchmaking events
SpecSteps == InitMM /\ [][StepsNext]_vars

\* friends rooms
SpecRoom == InitMM /\ [][RoomNext]_vars

\* rated matches
SpecRated == InitMM /\ [][RatedNext]_vars

\* rooms that are played more than once
SpecGames == InitMM /\ [][GamesNext]_vars

\* the season rows under every kind of end-of-game submission
SpecRows == InitMM /\ [][RowsNext]_vars

\* users who open and leave the matchmaking page
SpecPage == InitMM /\ [][PageNext]_vars

\* concurrent end-of-game requests: a greenlet that can run does run
SpecEnd ==
    /\ InitMM /\ [][EndNext]_vars
    /\ \A u \in Users : WF_vars(EndSteps(u))

\* end-of-game requests that fail
SpecEndFail == InitMM /\ [][FailNext]_vars

\* the server was started without ipl26.json
InitNoData ==
    /\ pools = PoolsNoIpl26
    /\ StartInit /\ FnIdle
    /\ players = Selected(get_pool(ds), NumCells)

SpecNoData == InitNoData /\ [][NoDataNext]_vars

\* one call of player_matches_cell, for every choice of its arguments
InitEval ==
    /\ BaseInit /\ players = Selected(get_pool(ds), NumCells)
    /\ ev \in EvalArgs
    /\ sc = NoScore
    /\ bg = NoBuild

SpecEval == InitEval /\ [][EvalNext]_vars

\* one call of build_grid, for every choice of its arguments and of the pools
InitGrid ==
    /\ pools \in {PoolsLoaded, PoolsNoIpl26, PoolsNoTeams}
    /\ StartInit
    /\ players = Selected(get_pool(ds), NumCells)
    /\ ev = NoEval /\ sc = NoScore
    /\ bg \in BuildArgs
    \* a pool that differs from the loaded one is the pool of the call
    /\ pools = PoolsNoIpl26 => bg.ds = "ipl26"
    /\ pools = PoolsNoTeams => bg.ds = "overall"

SpecGrid == InitGrid /\ [][GridNext]_vars

\* one call of build_grid whose cells are followed value by value
InitDup ==
    /\ BaseInit /\ players = Selected(get_pool(ds), NumCells)
    /\ ev = NoEval /\ sc = NoScore
    /\ bg \in DupArgs

SpecDup == InitDup /\ [][GridNext]_vars

\* one call of calcScore, for every choice of the state it reads
InitScore ==
    /\ BaseInit /\ players = Selected(get_pool(ds), NumCells)
    /\ ev = NoEval
    /\ sc \in ScoreArgs
    /\ bg = NoBuild

SpecScore == InitScore /\ [][ScoreNext]_vars

\* calls of create_game_state, for every choice of its arguments and of the pools
InitQueue ==
    /\ pools \in {PoolsLoaded, PoolsBig, PoolsNoIpl26}
    /\ StartInit /\ FnIdle
    /\ players = Selected(get_pool(ds), NumCells)

SpecQueue == InitQueue /\ [][QueueNext]_vars

(* ------------------------------------------------------------------ *)
(* Properties of the game session                                      *)
(* ------------------------------------------------------------------ *)
\* the candidate and the cell of an in-flight move, and whether they match
MoveHit(m) == player_matches_cell(players[m.cand + 1], grid[m.cell + 1], ds)

\* a move is submitted only for the candidate at the cursor, on a cell in range
\* that is unfilled, on a session in progress whose queue is not exhausted
SubmitIsValid ==
    \A m \in moves' \ moves :
        /\ ~ended /\ m.cell \in Cells /\ gstate[m.cell + 1] = None
        /\ m.cand = idx /\ idx < Len(players)

\* what a completed move leaves
MoveOutcome(m) ==
    /\ MoveHit(m) =>
          /\ gstate' = [gstate EXCEPT ![m.cell + 1] = DisplayName(players[m.cand + 1])]
          /\ correct' = correct + 1 /\ wrong' = wrong
    /\ ~MoveHit(m) =>
          /\ wrong' = wrong + 1 /\ correct' = correct /\ gstate' = gstate
    /\ idx' = idx + 1

\* C1: every valid submitMove(cell) fills the cell with the candidate and adds 1
\* to correctCount (wrongCount unchanged) when the candidate at the cursor matches
\* the cell, adds 1 to wrongCount and fills nothing when it does not, and advances
\* the cursor by exactly 1 either way.
C1_SubmitMove ==
    [][SubmitIsValid /\ \A m \in moves : MoveReply(m) => MoveOutcome(m)]_vars

\* C1 witness: a matching move and a non-matching move have both been completed
C1_Witness == correct >= 1 /\ wrong >= 1 /\ skips = InitSkips /\ moves = {} /\ ~clickable

\* C2: submitMove on a cell that is already filled is rejected: no request is
\* sent for it and correctCount, wrongCount, cursor and fillState stay as they are.
C2_FilledCellRejected ==
    [][\A i \in Cells :
          gstate[i + 1] # None /\ clickCell(i) =>
              UNCHANGED <<correct, wrong, idx, gstate, moves, cookie>>]_vars

\* C2 witness: a cell is filled while every other condition of clickCell lets a
\* click through
C2_Witness ==
    \E i \in Cells :
        gstate[i + 1] # None /\ clickable /\ ~ended /\ idx < Len(players)

\* C4: skip() with skips left takes one skip, adds 1 to wrongCount and advances the
\* cursor by 1; with none left it changes nothing; skipsRemaining only ever goes
\* down by one from 3 and stays within 0..3, so at most 3 skips succeed.
C4_Skip ==
    /\ [](skips \in 0..InitSkips)
    /\ [][/\ (doSkip /\ skips > 0 /\ ~ended) =>
                (skips' = skips - 1 /\ wrong' = wrong + 1 /\ idx' = idx + 1)
          /\ (doSkip /\ skips = 0) => UNCHANGED vars
          /\ skips' # skips => skips' = skips - 1]_vars

\* C4 witness: three skips have succeeded and the session is still in progress
C4_Witness == skips = 0 /\ ~ended /\ wrong >= InitSkips

\* C5: the wildcard succeeds at most once in a session: the first wildcard() sets
\* wildcardUsed, which then stays set, and no later wildcard() asks for a hint.
C5_WildcardOnce ==
    [][/\ wcUsed => wcUsed' /\ hints' \subseteq hints
       /\ (doWildcard /\ ~wcUsed /\ ~ended /\ idx < Len(players)) =>
             (wcUsed' /\ Cardinality(hints' \ hints) = 1)
       /\ (doWildcard /\ wcUsed) => UNCHANGED vars]_vars

\* C5 witness: the wildcard is used, its hint has arrived, and the session is
\* still in progress with a candidate at the cursor
C5_Witness == wcUsed /\ hints = {} /\ ~ended /\ idx < Len(players) /\ hl # {}

\* the cells the candidate of hint request h matches among those unfilled in fs
HintSet(h, fs) ==
    {i \in Cells : fs[i + 1] = None
                   /\ player_matches_cell(players[h.cand + 1], grid[i + 1], ds)}

\* C6: a successful wildcard() is answered with exactly the unfilled cells that the
\* candidate at the cursor matches (the handler against the fill state of the
\* session it is sent, the page against G.gstate when it marks them), and neither
\* the call nor its answer changes cursor, counts, skips or fill state.
C6_WildcardHint ==
    [][/\ \A h \in hints' \ hints : h.cand = idx /\ h.sess = cookie
       /\ \A h \in hints : HintReply(h) =>
             /\ api_wildcard_hint(h.sess, grid, h.pid, ds) = HintSet(h, h.sess.grid_state)
             /\ hl' = hl \cup HintSet(h, gstate)
             /\ UNCHANGED <<idx, correct, wrong, skips, gstate, cookie>>
       /\ doWildcard => UNCHANGED <<idx, correct, wrong, skips, gstate, cookie>>]_vars

\* C6 witness: a hint arrived for a candidate that matches a cell filled before
\* the wildcard was called
C6_Witness ==
    /\ wcUsed /\ hints = {} /\ hl # {} /\ idx < Len(players)
    /\ \E i \in Cells : gstate[i + 1] # None /\ i \notin hl

\* C7: a timeout adds 1 to wrongCount and advances the cursor by 1, as a wrong
\* answer does, and changes neither fill state, correctCount, skips nor wildcard.
C7_Timeout ==
    [][timeUp => /\ wrong' = wrong + 1 /\ idx' = idx + 1
                 /\ UNCHANGED <<gstate, correct, skips, wcUsed, cookie>>]_vars

\* C7 witness: the first candidate timed out (no click: clickable is still set,
\* and the timer is stopped with showP scheduled)
C7_Witness ==
    /\ idx = 1 /\ wrong = 1 /\ correct = 0 /\ skips = InitSkips
    /\ clickable /\ ~tint /\ showQ = 1 /\ moves = {}

\* C8: every advance of the cursor on a session in progress leaves it ended as
\* grid_complete if all cells are filled, else ended as no_more_players if the
\* cursor is at or beyond the end of the queue, else in progress; and showP
\* displays no candidate at or beyond the end of the queue.
C8_CompletionCheck ==
    [][/\ (~ended /\ idx' # idx) =>
            IF AllFilled(gstate') THEN ended' /\ reason' = "grid_complete"
            ELSE IF idx' >= Len(players)
                 THEN ended' /\ reason' = "no_more_players"
                 ELSE ~ended'
       /\ shown' # shown => (shown' = idx /\ idx < Len(players))]_vars

\* C8: a session still in progress with its cursor beyond the end of the queue
C8_Witness == ~ended /\ idx > Len(players) /\ wrong > Len(players)

(* ------------------------------------------------------------------ *)
(* Properties of the HTTP API                                          *)
(* ------------------------------------------------------------------ *)
\* C3: a validate_move request whose cell_idx is missing or outside
\* 0..len(grid)-1 evaluates no cell, fills no cell and leaves the session as it
\* was.
C3_OutOfRangeRejected ==
    [][\A pid \in ApiPids, cidx \in ApiIdx, src \in DataSources :
          (ApiValidateMove(pid, cidx, src) /\ (cidx = NoIdx \/ cidx[1] \notin Cells))
          => /\ apiSess' = apiSess
             /\ apiRet'.cell = 0
             /\ ~apiRet'.correct]_vars

\* C3: a request with cell_idx -1 was answered correct and filled the last cell
C3_Witness ==
    /\ apiRet.op = "validate_move" /\ apiRet.cidx = <<-1>> /\ apiRet.correct
    /\ apiSess.grid_state[NumCells] = apiRet.pid

(* ------------------------------------------------------------------ *)
(* Properties of matchmaking                                           *)
(* ------------------------------------------------------------------ *)
\* the tickets of other users that have the parameters p and a rating within
\* 300 of user me's
CompatibleWith(me, p) ==
    {t \in queue : /\ t.user_id # me
                   /\ <<t.data_source, t.grid_size, t.difficulty>> = <<p.ds, p.gs, p.diff>>
                   /\ t.rating - get_user_rating(me) \in (0 - 300)..300}

\* C9: an enqueue made while a compatible ticket of another user is queued takes
\* the enqueuer and one such ticket out of the queue together; an enqueue made
\* while no other ticket is compatible pairs nobody, creates no room and leaves
\* the new ticket queued.
C9_Pairing ==
    [][\A me \in Users, p \in Params :
          on_queue(me, p) =>
             LET others == {t \in queue : t.user_id # me}
             IN  /\ CompatibleWith(me, p) # {} =>
                       \E t \in CompatibleWith(me, p) : queue' = others \ {t}
                 /\ CompatibleWith(me, p) = {} =>
                       /\ rooms' = rooms
                       /\ queue' = others \cup {Ticket(me, get_user_rating(me), p)}]_vars

\* C9: a room was made, and two tickets with the same parameters whose ratings
\* are 301 apart are queued together
C9_Witness ==
    /\ rooms # {}
    /\ \E a, b \in queue :
          /\ a.user_id # b.user_id
          /\ <<a.data_source, a.grid_size, a.difficulty>>
                = <<b.data_source, b.grid_size, b.difficulty>>
          /\ a.rating - b.rating = 301

\* C10: an enqueue that finds a compatible ticket leaves neither of the two users
\* with a ticket and adds exactly one room, active and rated, that seats the
\* two distinct users.
C10_PairingMakesRoom ==
    [][\A me \in Users, p \in Params :
          (on_queue(me, p) /\ CompatibleWith(me, p) # {}) =>
             \E t \in CompatibleWith(me, p) :
                /\ t.user_id # me
                /\ \A x \in queue' : x.user_id \notin {me, t.user_id}
                /\ \E r \in rooms' \ rooms :
                      /\ rooms' = rooms \cup {r}
                      /\ r.status = "active" /\ r.mode = "rated"
                      /\ {r.player1_id, r.player2_id} = {me, t.user_id}]_vars

\* C11: the queue never holds two tickets of one user, and an enqueue by a user
\* who has a ticket leaves that user with at most one ticket, the new one (the
\* user's rating now and the parameters of this enqueue).
C11_OneTicketPerUser ==
    /\ [](\A a, b \in queue : a.user_id = b.user_id => a = b)
    /\ [][\A me \in Users, p \in Params :
             (on_queue(me, p) /\ \E t \in queue : t.user_id = me) =>
                \A t \in queue' :
                   t.user_id = me => t = Ticket(me, get_user_rating(me), p)]_vars

\* C11: a user is queued with parameters other than the first ones, after a room
\* was made
C11_Witness ==
    /\ rooms # {}
    /\ \E t \in queue : t.user_id = 1 /\ t.difficulty = "hard"

\* C13: the opponent an enqueue takes out of the queue has the least rating
\* difference among the compatible tickets.
C13_ClosestOpponent ==
    [][\A me \in Users, p \in Params :
          on_queue(me, p) =>
             \A t \in queue \ queue' :
                t.user_id # me =>
                   \A o \in CompatibleWith(me, p) :
                      Abs(t.rating - get_user_rating(me))
                         <= Abs(o.rating - get_user_rating(me))]_vars

\* C13: user 2 (1500) was paired with user 3 (1501) while the ticket of user 1
\* (1200), compatible with user 2 as well, stayed queued
C13_Witness ==
    /\ \E r \in rooms : r.player1_id = 3 /\ r.player2_id = 2
    /\ \E t \in queue : t.user_id = 1 /\ t.data_source = "overall"
                        /\ t.grid_size = 3 /\ t.difficulty = "normal"
    /\ \A t \in queue : t.user_id = 1

\* C14: leave_matchmaking removes the ticket of that user and nothing else; with
\* no ticket of that user it changes nothing; and a second one right after the
\* first would change nothing.
C14_Cancel ==
    [][\A me \in Users :
          on_leave_q(me) =>
             /\ queue' = {t \in queue : t.user_id # me}
             /\ rooms' = rooms
             /\ (\A t \in queue : t.user_id # me) => UNCHANGED vars
             /\ {t \in queue' : t.user_id # me} = queue']_vars

\* C14: two users are queued and a third one is not, after a room was made
C14_Witness ==
    /\ rooms # {}
    /\ \E a, b \in queue : a.user_id # b.user_id
    /\ \E u \in Users : \A t \in queue : t.user_id # u


(* ------------------------------------------------------------------ *)
(* Properties of rooms                                                 *)
(* ------------------------------------------------------------------ *)
Seated(row, u) == u \in {row.player1_id, row.player2_id}

\* C15: a join by a user who is neither host nor guest of a room whose guest
\* seat is taken fails (the user gets neither the room page nor the game page)
\* and leaves the seats as they are; a join with an unknown code fails and
\* changes nothing.
C15_JoinErrors ==
    /\ [](\A u \in Users, code \in RoomCodes :
            /\ ~HasRow(code) => room_reply(u, code) = "redirect /"
            /\ (HasRow(code) /\ RowOf(code).player2_id # NoUser
                   /\ ~Seated(RowOf(code), u)) =>
                  room_reply(u, code) \notin {"ROOM_BODY", "redirect /play"})
    /\ [][\A u \in Users, code \in RoomCodes :
            (room(u, code) /\ (~HasRow(code) \/ (RowOf(code).player2_id # NoUser
                                                   /\ ~Seated(RowOf(code), u)))) =>
               UNCHANGED vars]_vars

\* a room with both seats taken and a third user
C15_Witness ==
    \E r \in rooms, u \in Users :
        /\ r.mode = "friends" /\ r.player2_id # NoUser /\ ~Seated(r, u)
        /\ room_reply(u, r.room_code) = "ROOM_BODY"

\* C16: in a waiting room the first user other than the host who joins becomes
\* the guest; a guest seat that is taken is never changed again; the host never
\* takes the guest seat.
C16_GuestSeat ==
    /\ [](\A r \in rooms : r.player2_id # r.player1_id)
    /\ [][\A code \in RoomCodes :
            (HasRow(code) /\ RowOf(code).player2_id # NoUser) =>
               \E r \in rooms' : r.room_code = code
                                   /\ r.player2_id = RowOf(code).player2_id]_vars
    /\ [][\A u \in Users, code \in RoomCodes :
            (/\ room(u, code) /\ HasRow(code)
             /\ RowOf(code).status = "waiting"
             /\ RowOf(code).player2_id = NoUser
             /\ RowOf(code).player1_id # u) =>
               \E r \in rooms' : r.room_code = code /\ r.player2_id = u]_vars

\* a waiting room whose guest seat is taken, and a user who has neither seat
C16_Witness ==
    \E r \in rooms, u \in Users :
        /\ r.mode = "friends" /\ r.status = "waiting"
        /\ r.player2_id # NoUser /\ ~Seated(r, u)

\* C17: a start by anyone but the host of the room changes neither the status,
\* the seats nor the game state of the room; a start by the host installs a
\* freshly generated game and makes the room active.
C17_Start ==
    [][\A u \in Users, code \in RoomCodes, src \in DataSources :
          (on_start(u, code, src) /\ HasRow(code)) =>
             IF RowOf(code).player1_id = u
             THEN /\ rooms' = UpdateRow(code, [RowOf(code) EXCEPT !.status = "active"])
                  /\ game_state'[code] = GameState(TRUE, {})
             ELSE UNCHANGED <<rooms, game_state>>]_vars

\* the host has started a room that has a guest
C17_Witness ==
    \E r \in rooms :
        /\ r.mode = "friends" /\ r.status = "active" /\ r.player2_id # NoUser
        /\ game_state[r.room_code] = GameState(TRUE, {})

\* Waiting(hostOnly), Waiting(hostAndGuest), Active, Finished as 1, 2, 3, 4
Stage(row) ==
    CASE row.status = "waiting" /\ row.player2_id = NoUser -> 1
      [] row.status = "waiting" -> 2
      [] row.status = "active" -> 3
      [] OTHER -> 4

\* C18: the status of a room only moves forward along Waiting(hostOnly),
\* Waiting(hostAndGuest), Active, Finished, and a room becomes active only from
\* waiting with a guest seated.
C18_StatusForward ==
    [][\A code \in RoomCodes : HasRow(code) =>
          \A r \in rooms' : r.room_code = code =>
             /\ Stage(r) >= Stage(RowOf(code))
             /\ (Stage(r) = 3 /\ Stage(RowOf(code)) # 3) => Stage(RowOf(code)) = 2]_vars

\* a room that was settled is active again
C18_Witness ==
    \E r \in rooms : r.status = "active" /\ Len(matches) > 0 /\ r.mode = "friends"

(* ------------------------------------------------------------------ *)
(* Properties of the settlement                                        *)
(* ------------------------------------------------------------------ *)
\* this step settles the match of room code
Settles(code) ==
    /\ HasRow(code) /\ RowOf(code).status # "finished"
    /\ \E r \in rooms' : r.room_code = code /\ r.status = "finished"

HasResult(results, uid) == \E e \in results : e.user = uid

\* C19: when a rated match is settled on the results of its two players, the
\* winner is the player with the higher score, on equal scores the player with
\* the lower elapsed time, and always one of the two players.
C19_Winner ==
    [][\A code \in RoomCodes :
          (Settles(code) /\ RowOf(code).mode = "rated") =>
             LET p1  == RowOf(code).player1_id
                 p2  == RowOf(code).player2_id
                 res == game_state'[code].results
                 w   == matches'[Len(matches')].winner_id
             IN  (HasResult(res, p1) /\ HasResult(res, p2)) =>
                    LET r1 == CHOOSE e \in res : e.user = p1
                        r2 == CHOOSE e \in res : e.user = p2
                    IN  /\ p1 # p2 /\ w \in {p1, p2}
                        /\ r1.score > r2.score => w = p1
                        /\ r2.score > r1.score => w = p2
                        /\ (r1.score = r2.score /\ r1.elapsed < r2.elapsed) => w = p1
                        /\ (r1.score = r2.score /\ r2.elapsed < r1.elapsed) => w = p2]_vars

\* a rated match settled on 500 points in 60 s against 500 points in 45 s
C19_Witness ==
    /\ HasRow(FirstCode) /\ RowOf(FirstCode).status = "finished"
    /\ RowOf(FirstCode).mode = "rated"
    /\ LET row == RowOf(FirstCode)
           res == game_state[FirstCode].results
       IN  /\ [user |-> row.player1_id, score |-> 500, elapsed |-> 60] \in res
           /\ [user |-> row.player2_id, score |-> 500, elapsed |-> 45] \in res
           /\ matches[Len(matches)].winner_id = row.player2_id

\* C20: when a rated match is settled, each new rating is computed from the two
\* ratings before the match, the winner's rating does not go down, the loser's
\* does not go up, and the two changes add up to zero.
C20_RatingUpdate ==
    [][\A code \in RoomCodes :
          (Settles(code) /\ RowOf(code).mode = "rated") =>
             LET p1   == RowOf(code).player1_id
                 p2   == RowOf(code).player2_id
                 rat1 == get_user_rating(p1)
                 rat2 == get_user_rating(p2)
                 new1 == season_ratings'[p1].rating
                 new2 == season_ratings'[p2].rating
                 w    == matches'[Len(matches')].winner_id
                 act1 == IF w = p1 THEN EloOne ELSE 0
             IN  /\ season_ratings'[p1].has /\ season_ratings'[p2].has
                 /\ new1 = elo_update(rat1, elo_expected(rat1, rat2), act1)
                 /\ new2 = elo_update(rat2, elo_expected(rat2, rat1), EloOne - act1)
                 /\ (new1 - rat1) + (new2 - rat2) = 0
                 /\ IF w = p1 THEN new1 >= rat1 /\ new2 <= rat2
                              ELSE new1 <= rat1 /\ new2 >= rat2]_vars

\* a rated match is settled between players of different ratings, and the
\* ratings have moved
C20_Witness ==
    /\ HasRow(FirstCode) /\ RowOf(FirstCode).status = "finished"
    /\ RowOf(FirstCode).mode = "rated"
    /\ matches[Len(matches)].rating_change > 0
    /\ matches[Len(matches)].rating_change # EloK \div 2


(* ------------------------------------------------------------------ *)
(* Properties of concurrent enqueues                                   *)
(* ------------------------------------------------------------------ *)
\* the greenlet of user u has found an opponent and has not yet made the room
Pairing(u) == pc[u].at \in {"delete", "create"}

CountersAfter(old, new, w) ==
    /\ new.wins = old.wins + w
    /\ new.losses = old.losses + (1 - w)
    /\ new.total_games = old.total_games + 1
    /\ new.win_streak = (IF w = 1 THEN old.win_streak + 1 ELSE 0)
    /\ new.best_streak = Max2(old.best_streak, new.win_streak)

\* C22: on each settled rated match the winner's row gets wins + 1 and
\* win_streak + 1, the loser's row gets losses + 1 and win_streak 0, both rows
\* get total_games + 1, and best_streak of each row becomes the maximum of its
\* previous value and the new win_streak.
C22_Counters ==
    [][\A code \in RoomCodes :
          (Settles(code) /\ RowOf(code).mode = "rated") =>
             LET p1 == RowOf(code).player1_id
                 p2 == RowOf(code).player2_id
                 w1 == IF matches'[Len(matches')].winner_id = p1 THEN 1 ELSE 0
             IN  /\ CountersAfter(season_ratings[p1], season_ratings'[p1], w1)
                 /\ CountersAfter(season_ratings[p2], season_ratings'[p2], 1 - w1)]_vars

\* a rated match is settled; its winner has raised best_streak to 2, its loser
\* has win_streak 0 and has kept best_streak 2
C22_Witness ==
    /\ HasRow(FirstCode) /\ RowOf(FirstCode).status = "finished"
    /\ RowOf(FirstCode).mode = "rated"
    /\ LET m == matches[Len(matches)]
           w == m.winner_id
           l == IF w = m.player1_id THEN m.player2_id ELSE m.player1_id
       IN  /\ season_ratings[w].win_streak = 2 /\ season_ratings[w].best_streak = 2
           /\ season_ratings[l].win_streak = 0 /\ season_ratings[l].best_streak = 2


\* the columns of the ELO scoring of a row
Scoring(row) ==
    <<row.rating, row.wins, row.losses, row.win_streak, row.best_streak>>

\* C23: the ELO scoring is applied only for rooms whose mode is rated: a rating,
\* wins, losses, win_streak or best_streak changes, or a row is added to
\* matches, only in a step that settles a room of mode rated; the end of a game
\* in a friends room, of a solo game or of a daily game changes none of them.
C23_RatedOnly ==
    [][(\/ matches' # matches
        \/ \E u \in Users : Scoring(season_ratings'[u]) # Scoring(season_ratings[u])) =>
          \E code \in RoomCodes : Settles(code) /\ RowOf(code).mode = "rated"]_vars

\* a friends room is finished and its match is in matches
C23_Witness ==
    \E r \in rooms :
        /\ r.mode = "friends" /\ r.status = "finished"
        /\ Len(matches) > 0 /\ matches[Len(matches)].player1_id = r.player1_id

\* C29: the result of a room is settled at most once, whatever end-of-game
\* submissions and start requests follow: results are submitted for one room
\* only, so matches never holds more than one row.
C29_SettledOnce == Len(matches) <= 1

\* the rated room was settled twice
C29_Witness ==
    /\ Len(matches) = 2
    /\ \E r \in rooms : r.mode = "rated" /\ r.status = "finished"
    /\ matches[1].player1_id = matches[2].player1_id


(* ------------------------------------------------------------------ *)
(* Properties of concurrent end-of-game requests                       *)
(* ------------------------------------------------------------------ *)
\* games added to the season row of a user since the start
GamesAdded(u) == season_ratings[u].total_games - RatingsAtStart[u].total_games

\* C21: whenever no end-of-game request is in progress, the season rows of
\* the two players of a rated room have been updated by the same number of
\* settlements: never one row without the other.
C21_AtomicPair ==
    running = NoUser =>
        \A r \in rooms :
            r.mode = "rated" => GamesAdded(r.player1_id) = GamesAdded(r.player2_id)

\* a request has failed after the update of the first player's row: that row
\* counts one game more, the second player's row none
C21_Witness ==
    /\ running = NoUser
    /\ \E r \in rooms :
          /\ r.mode = "rated" /\ r.status = "active"
          /\ GamesAdded(r.player1_id) = 1
          /\ GamesAdded(r.player2_id) = 0
          /\ Len(matches) = 0

\* the request of u for the room is in progress or its result is stored
Submitted(u, code) ==
    \/ pc[u].at \in {"ensure", "update1", "update2", "match", "finish", "write"}
    \/ HasResult(game_state[code].results, u)

TeamsOf(player, d) ==
    IF d = "overall" THEN Seq2Set(player.iplTeams) ELSE {player.team}

TrophiesOf(player, d) ==
    IF d = "overall" THEN Seq2Set(player.trophies) ELSE {}

\* x is a team, the nation or a trophy of the player
IsAttribute(x, player, d) ==
    x \in TeamsOf(player, d) \/ x = player.nation \/ x \in TrophiesOf(player, d)

\* C25: a call of the evaluator changes nothing but its own result, which is
\* fixed by the arguments: for a team cell, whether the value is one of the
\* player's teams; for a nation cell, whether it is the player's nation; for a
\* trophy cell, whether it is one of the player's trophies, never so for the
\* source ipl26; for a cell of a kind other than the four, false.
C25_Matches ==
    [][(~ev.done /\ ev'.done) =>
          /\ UNCHANGED <<pools, ds, grid, players, sc, bg, sessionVars, serverVars>>
          /\ ev'.player = ev.player /\ ev'.cell = ev.cell /\ ev'.ds = ev.ds
          /\ LET k == ev.cell.type
                 v == ev.cell.value
             IN  /\ k = "team"   => (ev'.out <=> v \in TeamsOf(ev.player, ev.ds))
                 /\ k = "nation" => (ev'.out <=> v = ev.player.nation)
                 /\ k = "trophy" => (ev'.out <=> v \in TrophiesOf(ev.player, ev.ds))
                 /\ (k = "trophy" /\ ev.ds # "overall") => ~ev'.out
                 /\ k \notin {"team", "nation", "trophy", "combo"} => ~ev'.out]_vars

\* a trophy cell was evaluated false under ipl26 for a record that lists the
\* trophy
C25_Witness ==
    /\ ev.done /\ ~ev.out
    /\ ev.cell = [type |-> "trophy", value |-> CUP]
    /\ ev.ds = "ipl26"
    /\ InList(CUP, ev.player.trophies)

\* C26: a combo cell of two or three joined parts is evaluated true iff each
\* part is a team, the nation or a trophy of the player.
C26_Combo ==
    (ev.done /\ ev.cell.type = "combo") =>
        /\ \A a, b \in EvalValues :
              ev.cell.value = JoinPlus(a, b) =>
                  (ev.out <=> /\ IsAttribute(a, ev.player, ev.ds)
                              /\ IsAttribute(b, ev.player, ev.ds))
        /\ \A a, b, c \in EvalValues :
              ev.cell.value = JoinPlus(JoinPlus(a, b), c) =>
                  (ev.out <=> /\ IsAttribute(a, ev.player, ev.ds)
                              /\ IsAttribute(b, ev.player, ev.ds)
                              /\ IsAttribute(c, ev.player, ev.ds))

\* the cell "MI + IN" was evaluated false for the player of Mumbai Indians
\* whose nation is Australia
C26_Witness ==
    /\ ev.done /\ ~ev.out
    /\ ev.cell = [type |-> "combo", value |-> JoinPlus(MI, IND)]
    /\ ev.player = Hayden
    /\ ev.ds = "overall"


(* ------------------------------------------------------------------ *)
(* Properties of the score                                             *)
(* ------------------------------------------------------------------ *)
\* C27: the score is never negative; one more correct answer, with the
\* same elapsed time, wrong answers and fill state, never lowers it; and a
\* filled grid scores the 200 points of the bonus more than the same counts on
\* a grid that is not filled, as far as the score is not held at 0.
C27_Score ==
    sc.done =>
        LET s0 == calcScore(sc.correct, sc.wrong, sc.ms, FALSE, sc.gs)
            s1 == calcScore(sc.correct, sc.wrong, sc.ms, TRUE, sc.gs)
        IN  /\ sc.score >= 0
            /\ calcScore(sc.correct + 1, sc.wrong, sc.ms, sc.filled, sc.gs) >= sc.score
            /\ sc.score = (IF sc.filled THEN s1 ELSE s0)
            /\ s1 <= s0 + CompletionBonus
            /\ s0 > 0 => s1 = s0 + CompletionBonus
            /\ s1 > 0 => s0 = Max2(0, s1 - CompletionBonus)

\* a score with the bonus and a time penalty: 2 correct, 1 wrong, filled,
\* 136 s on a 3 x 3 grid is round(200 + 133.33 + 200 - 0.5) = 533
C27_Witness ==
    /\ sc.done
    /\ sc.correct = 2 /\ sc.wrong = 1 /\ sc.filled /\ sc.gs = 3 /\ sc.ms = 136000
    /\ sc.score = 533


(* ------------------------------------------------------------------ *)
(* Properties of an empty pool                                         *)
(* ------------------------------------------------------------------ *)
\* C28: no game is started on an empty pool: every active room holds a
\* generated game, and a start of a solo game on an empty pool is answered
\* with a failure and sets no session.
C28_NoGameOnEmptyPool ==
    /\ \A r \in rooms : r.status = "active" => game_state[r.room_code].generated
    /\ (apiRet.op = "play" /\ apiRet.status = 200) => apiSess.has

\* a room of two users paired for ipl26 is active and holds no game
C28_Witness ==
    \E r \in rooms :
        /\ r.mode = "rated" /\ r.status = "active"
        /\ r.player1_id # NoUser /\ r.player2_id # NoUser
        /\ ~game_state[r.room_code].generated
        /\ Len(get_pool("ipl26")) = 0


(* ------------------------------------------------------------------ *)
(* Properties of the grid generator                                    *)
(* ------------------------------------------------------------------ *)
\* the number of cells build_grid has appended to its list
NumBuilt == bg.cells["team"] + bg.cells["nation"] + bg.cells["trophy"] + bg.cells["combo"]

\* the kinds of the cells are those of the quota of the difficulty
FollowsQuota ==
    LET n == bg.size * bg.size
    IN  /\ NumBuilt = n
        /\ bg.difficulty = "easy" =>
              bg.cells["team"] = n
        /\ bg.difficulty = "normal" =>
              bg.cells["team"] = n \div 2 /\ bg.cells["nation"] = n - n \div 2
        /\ bg.difficulty = "hard" =>
              /\ bg.cells["team"] = n \div 3 /\ bg.cells["nation"] = n \div 3
              /\ bg.cells["combo"] = n - 2 * (n \div 3)

\* C24 as stated: for every pool, the grid build_grid returns has size * size
\* cells whose kinds follow the quota of the difficulty.
C24_QuotaEveryPool == bg.at = "returned" => FollowsQuota

\* C24: for every pool that is not empty and lists at least one team for the
\* data source, the grid build_grid returns has size * size cells whose kinds
\* follow the quota of the difficulty; for an empty pool it has no cell.
C24_Quota ==
    bg.at = "returned" =>
        /\ (get_pool(bg.ds) # << >> /\ Teams(get_pool(bg.ds), bg.ds) # {}) => FollowsQuota
        /\ get_pool(bg.ds) = << >> => NumBuilt = 0

\* a hard grid of size 4 was returned: 5 team, 5 nation and 6 combo cells,
\* more cells of each kind than the pool has values of it
C24_Witness ==
    /\ bg.at = "returned"
    /\ bg.size = 4 /\ bg.difficulty = "hard" /\ bg.ds = "ipl26"
    /\ bg.cells = [t \in CellTypes |->
                      CASE t = "team" -> 5 [] t = "nation" -> 5 [] t = "combo" -> 6
                        [] OTHER -> 0]


(* ------------------------------------------------------------------ *)
(* Properties of the results a settlement uses                         *)
(* ------------------------------------------------------------------ *)
\* C31: a rated room is finished on the results of its two players only:
\* every stored result is one of player1 or player2, and each of the two has
\* a result of its own, none replaced by the default.
C31_SeatedResults ==
    \A r \in rooms :
        (r.mode = "rated" /\ r.status = "finished") =>
            /\ \A e \in game_state[r.room_code].results :
                   e.user \in {r.player1_id, r.player2_id}
            /\ HasResult(game_state[r.room_code].results, r.player1_id)
            /\ HasResult(game_state[r.room_code].results, r.player2_id)

\* a rated room was settled on the result of player1 and the result of a
\* user who has no seat in it: player2 lost with the default score 0
C31_Witness ==
    \E r \in rooms :
        /\ r.mode = "rated" /\ r.status = "finished"
        /\ HasResult(game_state[r.room_code].results, r.player1_id)
        /\ ~HasResult(game_state[r.room_code].results, r.player2_id)
        /\ \E e \in game_state[r.room_code].results :
               e.user \notin {r.player1_id, r.player2_id}
        /\ Len(matches) = 1
        /\ matches[1].winner_id = r.player1_id
        /\ matches[1].player2_score = 0


(* ------------------------------------------------------------------ *)
(* Properties of the season rows                                       *)
(* ------------------------------------------------------------------ *)
\* C40: in every season row, wins + losses is at most total_games, win_streak
\* lies between 0 and best_streak, and win_streak is at most wins.
C40_RowInvariant ==
    \A u \in Users :
        LET row == season_ratings[u]
        IN  /\ row.wins + row.losses <= row.total_games
            /\ 0 <= row.win_streak /\ row.win_streak <= row.best_streak
            /\ row.win_streak <= row.wins

\* after a settlement and a game outside a room: the winner's win_streak 2
\* has raised its best_streak, the loser's win_streak is 0, and a row counts
\* more games than wins and losses
C40_Witness ==
    /\ Len(matches) = 1
    /\ \E u \in Users :
          /\ season_ratings[u].win_streak = 2 /\ season_ratings[u].best_streak = 2
          /\ season_ratings[u].best_streak > RatingsAtStart[u].best_streak
    /\ \E v \in Users :
          /\ season_ratings[v].win_streak = 0
          /\ season_ratings[v].losses > RatingsAtStart[v].losses
    /\ \E x \in Users :
          season_ratings[x].wins + season_ratings[x].losses
              < season_ratings[x].total_games

(* ------------------------------------------------------------------ *)
(* The cursor and the two counters                                     *)
(* ------------------------------------------------------------------ *)
\* C36: in every reachable state of a session the cursor equals the number of
\* correct answers plus the number of wrong ones, and every step either leaves
\* the three alone or adds one to the cursor and one to exactly one counter.
C36_CursorIsCount ==
    /\ [](idx = correct + wrong)
    /\ [][\/ UNCHANGED <<idx, correct, wrong>>
          \/ /\ idx' = idx + 1
             /\ \/ correct' = correct + 1 /\ wrong' = wrong
                \/ wrong' = wrong + 1 /\ correct' = correct]_vars

\* a correct move, a skip and one more wrong answer have all been counted
C36_Witness ==
    idx = 3 /\ correct = 1 /\ wrong = 2 /\ skips = InitSkips - 1 /\ moves = {}

(* ------------------------------------------------------------------ *)
(* One advance of the cursor for each candidate presented              *)
(* ------------------------------------------------------------------ *)
\* C32: while a move for the candidate under the cursor is awaiting validation
\* the cursor moves only when the response of that move is handled, so that a
\* skip or a timeout cannot advance the cursor as well.
C32_OneAdvance ==
    [][(\E m \in moves : m.cand = idx) => (idx' = idx \/ moves' # moves)]_vars

\* a move is still awaiting validation and the cursor has left its candidate
C32_Witness == \E m \in moves : m.cand < idx /\ skips < InitSkips /\ ~ended

(* ------------------------------------------------------------------ *)
(* An ended session                                                    *)
(* ------------------------------------------------------------------ *)
\* C34: once a session has ended no step changes the number of correct
\* answers, the number of wrong ones, the cursor or the fill state, and the
\* result of the game is posted exactly once.
C34_Terminal ==
    /\ [][ended => UNCHANGED <<correct, wrong, idx, gstate>>]_vars
    /\ [](ended => endPosts = 1)

\* the session has ended and posted its result while the response of a move
\* is still to come
C34_Witness == ended /\ endPosts = 1 /\ reason = "quit" /\ moves # {}

(* ------------------------------------------------------------------ *)
(* The fill state of the session and the fill state of the client      *)
(* ------------------------------------------------------------------ *)
\* C33: whenever no move is awaiting its response, a cell is filled in the
\* grid_state of the session iff it is filled in G.gstate of the client.
C33_FillAgree ==
    moves = {} =>
        \A i \in 1..NumCells : (cookie.grid_state[i] # None) <=> (gstate[i] # None)

\* a correct move has been completed and both sides record its cell
C33_Witness ==
    /\ moves = {} /\ correct >= 1
    /\ \E i \in 1..NumCells : cookie.grid_state[i] # None /\ gstate[i] # None

(* ------------------------------------------------------------------ *)
(* The owners of filled cells                                          *)
(* ------------------------------------------------------------------ *)
\* the cell at position c of the session is empty or its owner is the id of a
\* record of the pool that matches the cell
OwnerMatches(sess, c) ==
    sess.grid_state[c] # None =>
        LET k == FindPlayer(get_pool(ds), sess.grid_state[c])
        IN  k # 0 /\ player_matches_cell(get_pool(ds)[k], grid[c], ds)

\* C37: in every state of a session each filled cell of its grid_state is owned
\* by a player record that matches the cell, and no step empties a filled cell
\* or gives it another owner.
C37_FilledForGood ==
    /\ [](\A c \in 1..NumCells : OwnerMatches(cookie, c))
    /\ [][\A c \in 1..NumCells :
             cookie.grid_state[c] # None =>
                 cookie'.grid_state[c] = cookie.grid_state[c]]_vars

\* two moves were judged correct and the session records one filled cell
C37_Witness ==
    /\ moves = {} /\ correct = 2
    /\ Cardinality({c \in 1..NumCells : cookie.grid_state[c] # None}) = 1

(* ------------------------------------------------------------------ *)
(* Users who have abandoned matchmaking                                *)
(* ------------------------------------------------------------------ *)
\* the users whose matchmaking page is closed
Abandoned == {u \in Users : page[u] # "matchmaking"}

\* C35: a user who has abandoned matchmaking, by the timeout of 30 seconds or
\* by cancelling, has no ticket in the queue, and no enqueue of another user
\* makes a room with such a user.
C35_AbandonedNotQueued ==
    /\ [](\A t \in queue : t.user_id \notin Abandoned)
    /\ [][\A r \in rooms' \ rooms : r.player1_id \notin Abandoned]_vars

\* a rated room was made with a user whose page had gone to the solo game
C35_Witness ==
    \E r \in rooms : r.mode = "rated" /\ page[r.player1_id] = "solo"
                                      /\ page[r.player2_id] = "matchmaking"

(* ------------------------------------------------------------------ *)
(* The candidate queue of a new session                                *)
(* ------------------------------------------------------------------ *)
\* the records of sel are records of pool, taken from different positions: no
\* record occurs in sel more often than it does in pool
DrawnFrom(sel, pool) ==
    \A i \in 1..Len(sel) :
        Cardinality({j \in 1..Len(sel) : sel[j] = sel[i]})
            <= Cardinality({j \in 1..Len(pool) : pool[j] = sel[i]})

\* C39: the candidate queue of a new session has exactly
\* min(poolSize, 3 * size * size) records, each of them a record of the pool and
\* no pool record twice, and creating the session leaves the pool as it was.
C39_Queue ==
    [][\A src \in DataSources, size \in QueueSizes :
          create_game_state(src, size) /\ Len(get_pool(src)) > 0 =>
              /\ Len(players') = Min2(Len(get_pool(src)), 3 * size * size)
              /\ DrawnFrom(players', get_pool(src))
              /\ pools' = pools]_vars

\* a queue of 3 records was drawn from the pool of 5, in an order that is not
\* the pool's
C39_Witness ==
    /\ pools = PoolsBig /\ ds = "overall" /\ Len(grid) = 1
    /\ Len(players) = 3 /\ Len(get_pool(ds)) = 5
    /\ players # SubSeq(get_pool(ds), 1, 3)

(* ------------------------------------------------------------------ *)
(* Duplicate values in a grid                                          *)
(* ------------------------------------------------------------------ *)
\* C38: a grid holds a value twice only when all 20 attempts for the later of
\* the two cells drew values the grid already had: no cell is appended on an
\* attempt that succeeded with a value the grid already holds.
C38_DuplicateOnlyAfterRetries == ~bg.dup

\* a grid was returned in which a cell appended on a successful attempt
\* repeats the value of an earlier cell
C38_Witness == bg.at = "returned" /\ bg.dup /\ bg.difficulty = "easy"
====
